---- MODULE Spec2Model ----
(***************************************************************************)
(* Route service of VoyaAI (src/services/route_service.py): location       *)
(* resolution, segment routing with transit normalisation, and the greedy  *)
(* tour builder optimize_route.                                            *)
(*                                                                         *)
(* Units.  The code computes in floating point; the model computes in      *)
(* fixed point: a distance_km value is held in metres (thousandths of a    *)
(* kilometre) and a duration_minutes value in seconds (sixtieths of a      *)
(* minute).  Division by the positive constants 1000.0 and 60.0 is         *)
(* monotone, so every comparison of the code is the same comparison of     *)
(* the integers.  Sums and formatted values are computed on the floats     *)
(* themselves (see "Python floats" below): float(m) / 1000.0 for a         *)
(* distance of m metres, float(s) / 60.0 for a duration of s seconds.      *)
(***************************************************************************)
EXTENDS Integers, Sequences, FiniteSets, TLC

\* Python's None.  Every optional value of the model is a record, so that it
\* can be compared with None.
None == [none |-> TRUE]

\* An exception raised by amap_service._get (timeout, non-2xx, status "0").
ProviderError == [status |-> "error"]

\* A falsy provider response ({}): `if not data` in get_travel_route.
EmptyResponse == [status |-> "empty"]

(***************************************************************************)
(* Bounds of the model.                                                    *)
(***************************************************************************)
\* Longest input list of the ordering inputs.
MaxLocs == 4
\* Longest input list of the inputs that range over every strategy.
MaxLegLocs == 3
\* Most sub-legs of a transit itinerary handed to get_travel_route.
MaxSubLegs == 2

(***************************************************************************)
(* Python floats (IEEE 754 binary64, round to nearest, ties to even).      *)
(*                                                                         *)
(* A non-negative float is held exactly, as the natural number x * 2^80    *)
(* written in six digits of base 2^20, least significant digit first:      *)
(* digits 1..4 are the fraction, digits 5..6 the integer part.  Every      *)
(* float of the model is at least 2^-12 or zero, so its 53 significant     *)
(* bits lie on that grid.                                                  *)
(***************************************************************************)
\* The base of the digits.
Limb == 2^20

\* An operator below that uses a computed value more than once binds it
\* first, as the one element of a set, so that it is computed once.
Pow2Table ==
    <<1, 2, 4, 8, 16, 32, 64, 128, 256, 512, 1024, 2048, 4096, 8192, 16384,
      32768, 65536, 131072, 262144, 524288>>

\* 2^k for k in 0..19
Pow2(k) == Pow2Table[k + 1]

\* The number of bits of a digit.
IntBits(v) ==
    LET lo == IF v < 1024 THEN 0 ELSE 10
        mid == IF v < Pow2Table[lo + 6] THEN lo ELSE lo + 5
    IN  IF v < Pow2Table[mid + 1] THEN mid
        ELSE IF v < Pow2Table[mid + 2] THEN mid + 1
        ELSE IF v < Pow2Table[mid + 3] THEN mid + 2
        ELSE IF v < Pow2Table[mid + 4] THEN mid + 3
        ELSE IF v < Pow2Table[mid + 5] THEN mid + 4
        ELSE mid + 5

\* 0.0, and the int 0 that total_dist and total_time start from.
FloatZero == <<0, 0, 0, 0, 0, 0>>

\* float(n) of an int
FromInt(n) == <<0, 0, 0, 0, n % Limb, n \div Limb>>

\* The exact sum a + b, digit by digit with the carries.
BigAdd(a, b) ==
    LET s1 == a[1] + b[1]
        s2 == a[2] + b[2] + s1 \div Limb
        s3 == a[3] + b[3] + s2 \div Limb
        s4 == a[4] + b[4] + s3 \div Limb
        s5 == a[5] + b[5] + s4 \div Limb
        s6 == a[6] + b[6] + s5 \div Limb
    IN  <<s1 % Limb, s2 % Limb, s3 % Limb, s4 % Limb, s5 % Limb, s6 % Limb>>

\* The exact product a * c, c a small natural number.
BigMul(a, c) ==
    LET s1 == a[1] * c
        s2 == a[2] * c + s1 \div Limb
        s3 == a[3] * c + s2 \div Limb
        s4 == a[4] * c + s3 \div Limb
        s5 == a[5] * c + s4 \div Limb
        s6 == a[6] * c + s5 \div Limb
    IN  <<s1 % Limb, s2 % Limb, s3 % Limb, s4 % Limb, s5 % Limb, s6 % Limb>>

\* a / d for 0 < d < 2048, long division from the leading digit: the
\* quotient rounded down to the grid, and whether anything remains.
BigDiv(a, d) ==
    LET t6 == a[6]
        t5 == (t6 % d) * Limb + a[5]
        t4 == (t5 % d) * Limb + a[4]
        t3 == (t4 % d) * Limb + a[3]
        t2 == (t3 % d) * Limb + a[2]
        t1 == (t2 % d) * Limb + a[1]
    IN  [quotient |-> <<t1 \div d, t2 \div d, t3 \div d, t4 \div d, t5 \div d, t6 \div d>>,
         inexact |-> t1 % d # 0]

\* The number of bits of a.
BitLength(a) ==
    IF a[6] # 0 THEN 100 + IntBits(a[6])
    ELSE IF a[5] # 0 THEN 80 + IntBits(a[5])
    ELSE IF a[4] # 0 THEN 60 + IntBits(a[4])
    ELSE IF a[3] # 0 THEN 40 + IntBits(a[3])
    ELSE IF a[2] # 0 THEN 20 + IntBits(a[2])
    ELSE IntBits(a[1])

\* Bit k of a (bit 0 is the least significant).
Bit(a, k) == (a[k \div 20 + 1] \div Pow2(k % 20)) % 2

\* Some bit of a below bit k is set.
AnyBelow(a, k) ==
    \/ \E j \in 1..(k \div 20) : a[j] # 0
    \/ a[k \div 20 + 1] % Pow2(k % 20) # 0

\* a without its `drop` lowest bits, and one more unit of the last kept bit
\* when `up`.
KeepBits(a, drop, up) ==
    LET w == drop \div 20 + 1
        unit == Pow2(drop % 20)
        Kept(k) == IF k < w THEN 0
                   ELSE IF k = w THEN a[k] - (a[k] % unit)
                   ELSE a[k]
        Ulp(k) == IF k = w THEN unit ELSE 0
    IN  CHOOSE r \in {IF up THEN BigAdd(kept, ulp) ELSE kept :
                         kept \in {<<Kept(1), Kept(2), Kept(3), Kept(4), Kept(5), Kept(6)>>},
                         ulp \in {<<Ulp(1), Ulp(2), Ulp(3), Ulp(4), Ulp(5), Ulp(6)>>}} : TRUE

\* a rounded to its leading bits when `bits` of it are to go: the value goes
\* up when what is dropped is more than half of the last kept bit, or
\* exactly half and the last kept bit is odd.
RoundAt(a, bits, inexact) ==
    CHOOSE r \in
        {IF drop <= 0 THEN a
         ELSE KeepBits(a, drop, /\ Bit(a, drop - 1) = 1
                                /\ \/ AnyBelow(a, drop - 1)
                                   \/ inexact
                                   \/ Bit(a, drop) = 1) : drop \in {bits}} : TRUE

\* The nearest float to a value: x on the grid, plus a remainder below the
\* grid when `inexact`.  The 53 leading bits are kept.
RoundToFloat(x, inexact) ==
    CHOOSE r \in {RoundAt(a, BitLength(a) - 53, inexact) : a \in {x}} : TRUE

\* float(n) / d for an int n and d = 1000.0 or 60.0
Float(n, d) ==
    CHOOSE r \in {RoundToFloat(q.quotient, q.inexact) : q \in {BigDiv(FromInt(n), d)}} : TRUE

\* x + y
FloatAdd(x, y) ==
    CHOOSE r \in {RoundToFloat(BigAdd(a, b), FALSE) : a \in {x}, b \in {y}} : TRUE

\* x / d for a float x and d = 60
FloatDiv(x, d) ==
    CHOOSE r \in {RoundToFloat(q.quotient, q.inexact) :
                     q \in {CHOOSE p \in {BigDiv(a, d) : a \in {x}} : TRUE}} : TRUE

\* The integer nearest to m / 2^80, ties to even.
NearestInt(m) ==
    LET whole == m[5] + Limb * m[6]
        half == Limb \div 2
    IN  IF m[4] > half \/ (m[4] = half /\ \E k \in 1..3 : m[k] # 0) THEN whole + 1
        ELSE IF m[4] < half THEN whole
        ELSE IF whole % 2 = 0 THEN whole ELSE whole + 1

\* round(x * scale) for scale = 1, 10, 100: the integer nearest to the exact
\* value of the float times the scale, ties to even.  It is the number both
\* format(x, ".Nf") and round(x, N) print, in units of 10^-N.
RoundScaled(x, scale) ==
    CHOOSE r \in {NearestInt(m) :
                     m \in {CHOOSE p \in {BigMul(a, scale) : a \in {x}} : TRUE}} : TRUE

(***************************************************************************)
(* Number formatting: f"{x:.1f}" and f"{x:.0f}".                           *)
(***************************************************************************)
\* f"{x:.1f}"
Fmt1(x) ==
    CHOOSE s \in {ToString(tenths \div 10) \o "." \o ToString(tenths % 10) :
                     tenths \in {RoundScaled(x, 10)}} : TRUE

\* f"{x:.0f}"
Fmt0(x) == ToString(RoundScaled(x, 1))

\* round(x, 2), in hundredths
Round2(x) == RoundScaled(x, 100)

(***************************************************************************)
(* Location (dataclass) and get_location_details.                          *)
(*                                                                         *)
(* A provider "location" string "lng,lat" is modelled by the sequence of   *)
(* its comma-separated parts: <<>> is the empty string, <<x>> a string     *)
(* without comma, <<lng, lat>> a well-formed pair and a longer sequence a  *)
(* string whose unpacking into (lng, lat) raises ValueError.               *)
(***************************************************************************)
Location(name, lat, lng, address, city) ==
    [name |-> name, lat |-> lat, lng |-> lng, address |-> address, city |-> city]

\* Mutant of get_location_details: a top candidate without usable
\* coordinates is passed over and the next candidate with coordinates wins.
get_location_details_next(place_name, city, data, geo_data) ==
    IF data.status = "error" THEN None
    ELSE LET usable == SelectSeq(data.pois, LAMBDA poi : Len(poi.location) = 2)
         IN  IF usable = <<>> THEN None
             ELSE Location(usable[1].name, usable[1].location[2],
                           usable[1].location[1], usable[1].address,
                           usable[1].cityname)

\* data: the text_search response or ProviderError; geo_data: the geocode
\* response (or ProviderError) that would be given to the fallback request.
get_location_details(place_name, city, data, geo_data) ==
    IF data.status = "error" THEN None
    ELSE IF data.pois = <<>> THEN None
    ELSE
      LET top_poi == data.pois[1]
          geocoded ==
              IF geo_data.status = "error" THEN <<>>
              ELSE IF geo_data.geocodes # <<>>
                   THEN geo_data.geocodes[1].location
                   ELSE <<>>
          location_str ==
              IF top_poi.location = <<>> /\ top_poi.address # ""
              THEN geocoded
              ELSE top_poi.location
      IN  IF Len(location_str) = 2
          THEN Location(top_poi.name, location_str[2], location_str[1],
                        top_poi.address, top_poi.cityname)
          ELSE None

(***************************************************************************)
(* The place-search and geocoding provider seen by optimize_route: a       *)
(* fixed map.  A, B, C, E carry coordinates, D carries only an address     *)
(* that geocodes, X is unknown to the provider.  Coordinates in degrees,   *)
(* as (lat, lng): A(0,0), B(0,1), D(0,2), C(0,5), E(1,0).  The keyword S    *)
(* finds the place "S Station" at (2,0); " Station" stands for the station *)
(* suffix of a place name.                                                 *)
(***************************************************************************)
Names == {"A", "B", "C", "D", "E", "X"}
LegNames == {"A", "B", "X"}

Poi(name, location, address) ==
    [name |-> name, location |-> location, address |-> address, cityname |-> "GZ"]

SearchOk(pois) == [status |-> "ok", pois |-> pois]

GeoOk(geocodes) == [status |-> "ok", geocodes |-> geocodes]

\* The responses text_search can give for a name: one for a known place;
\* for X an empty candidate list or a provider failure.
TextSearch(keywords) ==
    CASE keywords = "A" -> {SearchOk(<<Poi("A", <<0, 0>>, "addrA")>>)}
      [] keywords = "B" -> {SearchOk(<<Poi("B", <<1, 0>>, "addrB"),
                                       Poi("B2", <<7, 7>>, "addrB2")>>)}
      [] keywords = "C" -> {SearchOk(<<Poi("C", <<5, 0>>, "")>>)}
      [] keywords = "D" -> {SearchOk(<<Poi("D", <<>>, "addrD")>>)}
      [] keywords = "E" -> {SearchOk(<<Poi("E", <<0, 1>>, "addrE")>>)}
      [] keywords = "S" -> {SearchOk(<<Poi("S Station", <<0, 2>>, "addrS")>>)}
      [] OTHER -> {SearchOk(<<>>), ProviderError}

Geocode(address) ==
    IF address = "addrD" THEN GeoOk(<<[location |-> <<2, 0>>]>>)
    ELSE GeoOk(<<>>)

\* The address the fallback request of get_location_details would carry.
TopAddress(data) ==
    IF data.status = "ok" /\ data.pois # <<>> THEN data.pois[1].address ELSE ""

(***************************************************************************)
(* get_travel_route: the request sent for a mode, and the normalisation of *)
(* the provider's response into a RouteSegment.                            *)
(*                                                                         *)
(* A directions response is [status, paths, transits, distance]; distance  *)
(* is the route-level field.  The V4 bicycling wrapper key ("data"         *)
(* instead of "route") only selects where the same three fields are read   *)
(* from and is not represented.  A path is [distance, duration, steps]     *)
(* (metres, seconds, instruction texts).  A transit itinerary is           *)
(* [distance, duration, segments]; a sub-leg is [walking, bus, railway]:   *)
(* walking is its walking distance (0 when the sub-leg has none), bus the  *)
(* list of candidate bus lines [name, distance], railway [name, distance]  *)
(* with name "" when the sub-leg has no rail part.  A bus line name is     *)
(* [base, qual]: the text before the first "(" (stripped) and the rest.    *)
(***************************************************************************)
RouteSegment(origin, destination, distance_km, duration_minutes, strategy, steps) ==
    [origin |-> origin, destination |-> destination,
     distance_km |-> distance_km, duration_minutes |-> duration_minutes,
     strategy |-> strategy, steps |-> steps]

\* f"{lng},{lat}"
Coords(loc) == <<loc.lng, loc.lat>>

\* The amap_service function called for a mode and its parameters.
AmapRequest(origin, destination, mode) ==
    LET city1 == IF origin.city # "" THEN origin.city ELSE "Beijing"
        city2 == IF destination.city # "" THEN destination.city ELSE city1
        plain(endpoint) ==
            [endpoint |-> endpoint, origin |-> Coords(origin),
             destination |-> Coords(destination), city |-> "", cityd |-> ""]
    IN  CASE mode = "driving" -> plain("driving")
          [] mode = "transit" ->
                [endpoint |-> "transit", origin |-> Coords(origin),
                 destination |-> Coords(destination), city |-> city1,
                 cityd |-> IF city2 # "" THEN city2 ELSE city1]
          [] mode = "walking" -> plain("walking")
          [] mode = "bicycling" -> plain("bicycling")
          [] OTHER -> plain("driving")

\* line_name.split("(")[0].strip()
SimpleName(line_name) == line_name.base

\* modes_found.append(name) unless it is already there.
AddMode(modes_found, name) ==
    IF \E k \in 1..Len(modes_found) : modes_found[k] = name
    THEN modes_found
    ELSE Append(modes_found, name)

\* One iteration of `for seg in segments_list`; st is
\* [acc |-> accumulated_dist_m, modes |-> modes_found, steps |-> steps].
TransitStep(st, seg) ==
    LET w == IF seg.walking # 0
             THEN [st EXCEPT !.acc = @ + seg.walking,
                             !.steps = Append(@, [kind |-> "walk", name |-> "",
                                                  dist |-> seg.walking])]
             ELSE st
    IN  IF seg.bus # <<>>
        THEN LET line == seg.bus[1]
                 simple_name == SimpleName(line.name)
             IN  [acc |-> w.acc + line.distance,
                  modes |-> AddMode(w.modes, simple_name),
                  steps |-> Append(w.steps, [kind |-> "ride", name |-> simple_name,
                                             dist |-> 0])]
        ELSE IF seg.railway.name # ""
        THEN [acc |-> w.acc + seg.railway.distance,
              modes |-> AddMode(w.modes, seg.railway.name),
              steps |-> Append(w.steps, [kind |-> "ride", name |-> seg.railway.name,
                                         dist |-> 0])]
        ELSE w

RECURSIVE TransitFold(_, _)
TransitFold(st, segments_list) ==
    IF segments_list = <<>> THEN st
    ELSE TransitFold(TransitStep(st, Head(segments_list)), Tail(segments_list))

\* " + ".join(modes_found)
RECURSIVE JoinPlus(_)
JoinPlus(modes_found) ==
    IF Len(modes_found) = 1 THEN modes_found[1]
    ELSE modes_found[1] \o " + " \o JoinPlus(Tail(modes_found))

\* The label of a transit itinerary.
TransitLabel(modes_found) ==
    IF modes_found # <<>> THEN JoinPlus(modes_found) ELSE "Transit"

\* The distance (metres) of a transit itinerary.
TransitDistance(accumulated_dist_m, path, route_data) ==
    IF accumulated_dist_m > 0 THEN accumulated_dist_m
    ELSE IF path.distance = 0 THEN route_data.distance ELSE path.distance

\* The instruction texts of a path, empty ones left out.
PathSteps(steps) ==
    SelectSeq([k \in 1..Len(steps) |-> [kind |-> "instr", name |-> steps[k], dist |-> 0]],
              LAMBDA s : s.name # "")

\* Mutant of get_travel_route: the final `if paths or transits` is missing,
\* so a response without route yields the initial zero values.
get_travel_route_unguarded(origin, destination, mode, data) ==
    IF data.status # "ok" THEN None
    ELSE IF data.paths # <<>>
    THEN LET path == data.paths[1]
         IN  RouteSegment(origin, destination, path.distance, path.duration,
                          mode, PathSteps(path.steps))
    ELSE IF data.transits # <<>>
    THEN LET path == data.transits[1]
             st == TransitFold([acc |-> 0, modes |-> <<>>, steps |-> <<>>],
                               path.segments)
         IN  RouteSegment(origin, destination,
                          TransitDistance(st.acc, path, data),
                          path.duration, TransitLabel(st.modes), st.steps)
    ELSE RouteSegment(origin, destination, 0, 0, mode, <<>>)

\* data: the response of the request, ProviderError or EmptyResponse.
get_travel_route(origin, destination, mode, data) ==
    IF data.status # "ok" THEN None
    ELSE IF data.paths # <<>>
    THEN LET path == data.paths[1]
         IN  RouteSegment(origin, destination, path.distance, path.duration,
                          mode, PathSteps(path.steps))
    ELSE IF data.transits # <<>>
    THEN LET path == data.transits[1]
             st == TransitFold([acc |-> 0, modes |-> <<>>, steps |-> <<>>],
                               path.segments)
         IN  RouteSegment(origin, destination,
                          TransitDistance(st.acc, path, data),
                          path.duration, TransitLabel(st.modes), st.steps)
    ELSE None

(***************************************************************************)
(* optimize_route.                                                         *)
(***************************************************************************)
VARIABLES
    pc,           \* "call": awaiting the gather of resolutions; "routing":
                  \* awaiting the lookup(s) of leg i+1; "done": returned
    locations,    \* input: the list of names
    strategy,     \* input
    preference,   \* input
    results,      \* what asyncio.gather returned, in input order
    path,         \* the tour
    i,            \* legs recorded so far (the loop index of step 3)
    segments,     \* the entries recorded so far
    total_dist,   \* a float, in kilometres
    total_time,   \* a float, in minutes
    d_res, t_res, \* the two lookups of the last smart leg
    segment,      \* the segment chosen for the last leg, or None
    chosen,       \* history: the value of `segment` of every leg so far
    leg_requests, \* the amap_service requests issued for the last leg
    result,       \* the returned dict, None until the call returns
    response      \* what the /travel/optimize endpoint answers to a request
                  \* with these names, None until then; a list of fewer than
                  \* two names is refused there (422), the other variables
                  \* then follow a direct call of the service

tourVars == <<pc, locations, strategy, preference, results, path, i, segments,
              total_dist, total_time, d_res, t_res, segment, chosen,
              leg_requests, result, response>>

\* One call of get_travel_route on its own.
VARIABLES
    rt_pc,           \* "idle", "call", "await" (request sent), "done"
    rt_origin,       \* input
    rt_destination,  \* input
    rt_mode,         \* input
    rt_request,      \* the amap_service request sent
    rt_data,         \* the provider's answer
    rt_result        \* the returned RouteSegment, or None

routeVars == <<rt_pc, rt_origin, rt_destination, rt_mode, rt_request, rt_data,
               rt_result>>

\* One call of get_location_details (through the resolve_location endpoint)
\* or of search_locations.
VARIABLES
    rs_pc,        \* "idle"; "call": the call is pending, not yet started or
                  \* suspended at the request it issued last; "done"
    rs_op,        \* "resolve" or "search"
    rs_query,     \* input: place_name / query
    rs_city,      \* input: the caller's city hint
    rs_data,      \* the provider's answer to the text search
    rs_geo,       \* per candidate rank, the provider's answer to a geocoding
                  \* request made for that candidate
    rs_requests,  \* the amap_service requests issued, in order
    rs_result,    \* resolve: the Location or None; search: the list
    rs_status     \* resolve: the HTTP status of the endpoint; 0 otherwise

resolveVars == <<rs_pc, rs_op, rs_query, rs_city, rs_data, rs_geo, rs_requests,
                 rs_result, rs_status>>

\* One call of calculate_segment.
VARIABLES
    sg_pc,           \* "idle"; "origin", "sleep", "dest", "rail", "stations",
                     \* "tickets", "route": the await the call is at; "done"
    sg_origin_name,  \* input
    sg_dest_name,    \* input
    sg_mode,         \* input
    sg_city,         \* input
    sg_rail,         \* the rail provider: what its tools answer
    sg_now,          \* the clock read for the ticket query (minutes since
                     \* 1970-01-01T00:00Z), 0 while not read
    sg_stations,     \* the two station resolutions the rail lookup gathers,
                     \* [origin, dest]: each at its by-names call, at its
                     \* city-list call or ended with a station or None; None
                     \* while they are not started
    sg_origin,       \* the resolved origin, or None
    sg_dest,         \* the resolved destination, or None
    sg_train,        \* train_data, or None
    sg_segment,      \* the RouteSegment of get_travel_route, or None
    sg_requests,     \* the provider requests issued and the pause, in order
    sg_result,       \* the returned dict, None until the call returns
    sg_response      \* what the /travel/calculate-segment endpoint answers,
                     \* None until then

segVars == <<sg_pc, sg_origin_name, sg_dest_name, sg_mode, sg_city, sg_rail, sg_now,
             sg_stations,
             sg_origin, sg_dest, sg_train, sg_segment, sg_requests, sg_result,
             sg_response>>

\* The plan store (StorageService) and the operations on it.
VARIABLES
    st_pc,     \* "idle", or "open": the service is constructed
    st_file,   \* the content of plans.json: the dict id -> plan dict, or
               \* Unreadable
    st_count,  \* the number of operations made so far
    st_last    \* the last operation: [op, id, plan, read_ok, write, before,
               \* returned],
               \* before being the content of the file when it began

storeVars == <<st_pc, st_file, st_count, st_last>>

\* One call of optimize_route at the grain of its tasks: every coroutine the
\* call hands to asyncio.gather, and every await of the call, is a step.
VARIABLES
    ta_pc,          \* "idle"; "gather": awaiting the resolutions; "leg": about
                    \* to issue the lookups of the next leg; "lookups":
                    \* awaiting them; "done"
    ta_locations,   \* input
    ta_strategy,    \* input
    ta_preference,  \* input
    ta_tasks,       \* per input position, the resolution task: [state, result]
    ta_order,       \* the positions in the order their tasks ended
    ta_results,     \* what the gather returned, None before
    ta_path,        \* the tour
    ta_leg,         \* legs recorded so far
    ta_lookups,     \* the lookups of the current leg, in the order issued:
                    \* [mode, state, result]
    ta_events,      \* the events of the current leg, in order: [kind, leg, mode]
    ta_segments,    \* the entries recorded so far
    ta_chosen,      \* the segment chosen for every leg so far
    ta_total_dist,  \* a float, in kilometres
    ta_total_time,  \* a float, in minutes
    ta_result       \* the returned dict, None until the call returns

taskVars == <<ta_pc, ta_locations, ta_strategy, ta_preference, ta_tasks, ta_order,
              ta_results, ta_path, ta_leg, ta_lookups, ta_events, ta_segments,
              ta_chosen, ta_total_dist, ta_total_time, ta_result>>

vars == <<tourVars, routeVars, resolveVars, segVars, storeVars, taskVars>>

\* What an action of one call leaves alone: everything of the other calls.
exceptTour == <<routeVars, resolveVars, segVars, storeVars, taskVars>>
exceptRoute == <<tourVars, resolveVars, segVars, storeVars, taskVars>>
exceptResolve == <<tourVars, routeVars, segVars, storeVars, taskVars>>
exceptSeg == <<tourVars, routeVars, resolveVars, storeVars, taskVars>>
exceptStore == <<tourVars, routeVars, resolveVars, segVars, taskVars>>
exceptTasks == <<tourVars, routeVars, resolveVars, segVars, storeVars>>

\* --- the endpoints of the two calls -----------------------------------------
HTTPException(status_code, detail) == [status_code |-> status_code, detail |-> detail]

\* str(e) of an HTTPException: "<status_code>: <detail>".
StrHTTPException(e) ==
    (IF e.status_code = 400 THEN "400: " ELSE "500: ") \o e.detail

\* The try block of both endpoints: `if "error" in result: raise
\* HTTPException(status_code=400, detail=result["error"])`, else the result
\* is returned (res: what the service returned).  The value is the exception
\* raised inside the block, or None.
RaisedInTry(res) ==
    IF "error" \in DOMAIN res THEN HTTPException(400, res.error) ELSE None

\* The answer of an endpoint: status 200 with the result as body, or the
\* HTTPException that leaves the handler.
Ok(res) == [status_code |-> 200, body |-> res]

\* The handler of /travel/optimize once the service has returned res:
\* `except Exception as e` encloses the raise of the try block.
optimize_route_endpoint(res) ==
    LET e == RaisedInTry(res)
    IN  IF e # None
        THEN HTTPException(500, "Failed to optimize route: " \o StrHTTPException(e))
        ELSE Ok(res)

\* What the framework answers to a request body RouteRequest refuses:
\* `locations` has min_items=2, a shorter list never reaches the handler.
RequestValidationError == [status_code |-> 422, detail |-> "locations: min_items 2"]

\* POST /travel/optimize with a list of names, res being what the service
\* returns for it: the validation of the body, then the handler.
optimize_route_response(locs, res) ==
    IF Len(locs) < 2 THEN RequestValidationError ELSE optimize_route_endpoint(res)

\* The handler of /travel/calculate-segment once the service has returned.
calculate_segment_endpoint(res) ==
    LET e == RaisedInTry(res)
    IN  IF e # None THEN HTTPException(500, StrHTTPException(e))
        ELSE Ok(res)

SmartStrategies == {"smart", "best", "recommend"}
Strategies ==
    {"driving", "walking", "transit", "cycling", "train"} \cup SmartStrategies
Preferences == {"time", "distance", "transit_first", "driving_first", "scenic"}

\* All sequences over S of length at most n.
RECURSIVE SeqsUpTo(_, _)
SeqsUpTo(S, n) ==
    IF n = 0 THEN {<<>>}
    ELSE LET shorter == SeqsUpTo(S, n - 1)
         IN  shorter \cup {Append(q, x) : q \in {r \in shorter : Len(r) = n - 1}, x \in S}

\* The calls explored: long lists under one strategy, and shorter lists over
\* fewer names under every strategy and preference.
Inputs ==
    [locations : SeqsUpTo(Names, MaxLocs), strategy : {"walking"}, preference : {"time"}]
    \cup
    [locations : SeqsUpTo(LegNames, MaxLegLocs), strategy : Strategies,
     preference : Preferences]

\* --- step 1: resolution ---------------------------------------------------
\* The sets of text_search responses the names of a list can meet, position
\* by position.
RECURSIVE SearchOutcomes(_)
SearchOutcomes(names) ==
    IF names = <<>> THEN {<<>>}
    ELSE {<<data>> \o rest : data \in TextSearch(Head(names)),
                             rest \in SearchOutcomes(Tail(names))}

\* tasks = [get_location_details(n, city) ...]; results = await gather(*tasks)
Gather(names, datas) ==
    [k \in 1..Len(names) |->
        get_location_details(names[k], "", datas[k], Geocode(TopAddress(datas[k])))]

\* The loop that keeps the results that are locations.
ResolvedLocations(rs) == SelectSeq(rs, LAMBDA r : r # None)

\* --- step 2: greedy nearest neighbour --------------------------------------
\* Mutant of DistApprox2: the longitude term is left out.
DistLatOnly(current, candidate) ==
    (current.lat - candidate.lat) * (current.lat - candidate.lat)

\* dist_approx squared: the square root is monotone.
DistApprox2(current, candidate) ==
    (current.lat - candidate.lat) * (current.lat - candidate.lat)
    + (current.lng - candidate.lng) * (current.lng - candidate.lng)

\* best_idx: the first candidate whose distance is below every earlier one.
BestIdx(current, resolved_locations) ==
    CHOOSE b \in 1..Len(resolved_locations) :
        /\ \A k \in 1..Len(resolved_locations) :
              DistApprox2(current, resolved_locations[b])
                  <= DistApprox2(current, resolved_locations[k])
        /\ \A k \in 1..(b - 1) :
              DistApprox2(current, resolved_locations[k])
                  > DistApprox2(current, resolved_locations[b])

\* resolved_locations.pop(idx)
Pop(q, idx) == SubSeq(q, 1, idx - 1) \o SubSeq(q, idx + 1, Len(q))

RECURSIVE GreedyLoop(_, _)
GreedyLoop(p, resolved_locations) ==
    IF resolved_locations = <<>> THEN p
    ELSE LET best_idx == BestIdx(p[Len(p)], resolved_locations)
         IN  GreedyLoop(Append(p, resolved_locations[best_idx]),
                        Pop(resolved_locations, best_idx))

\* Mutant of GreedyPath: the start is popped from the end of the list.
GreedyPathFromLast(resolved_locations) ==
    GreedyLoop(<<resolved_locations[Len(resolved_locations)]>>,
               SubSeq(resolved_locations, 1, Len(resolved_locations) - 1))

\* path = [resolved_locations.pop(0)]; while resolved_locations: ...
GreedyPath(resolved_locations) ==
    GreedyLoop(<<Head(resolved_locations)>>, Tail(resolved_locations))

\* --- step 3: legs ----------------------------------------------------------
Path1(distance, duration) ==
    [distance |-> distance, duration |-> duration, steps |-> <<"go", "">>]

RouteOk(paths, transits) ==
    [status |-> "ok", paths |-> paths, transits |-> transits, distance |-> 0]

LineName(base, qual) == [base |-> base, qual |-> qual]

BusLine(name, distance) == [name |-> name, distance |-> distance]

NoRail == [name |-> "", distance |-> 0]

SubLeg(walking, bus, railway) == [walking |-> walking, bus |-> bus, railway |-> railway]

Itinerary(distance, duration, segs) ==
    [distance |-> distance, duration |-> duration, segments |-> segs]

\* What each directions endpoint can answer to optimize_route's lookups.
\* 6.35 km and 39 minutes (0.65 hours) are decimal ties at one decimal,
\* alone and added to the 8 km and 30 minutes of the transit answer.
RouteResponses(endpoint) ==
    CASE endpoint = "driving" ->
            {ProviderError, RouteOk(<<>>, <<>>),
             RouteOk(<<Path1(10000, 1200)>>, <<>>),
             RouteOk(<<Path1(6350, 2340)>>, <<>>)}
      [] endpoint = "transit" ->
            {ProviderError,
             RouteOk(<<>>, <<Itinerary(500, 1800,
                 <<SubLeg(500, <<BusLine(LineName("A", "(a--b)"), 7500)>>, NoRail)>>)>>)}
      [] OTHER -> {EmptyResponse, RouteOk(<<Path1(3000, 2400)>>, <<>>)}

\* Mutant of SmartChoice: the preference is ignored, the faster one wins.
SmartChoiceByTime(pref, d, t) ==
    IF d # None /\ t # None
    THEN IF d.duration_minutes <= t.duration_minutes THEN d ELSE t
    ELSE IF d # None THEN d
    ELSE IF t # None THEN t
    ELSE None

\* The choice between the two lookups of a smart leg.
SmartChoice(pref, d, t) ==
    IF d # None /\ t # None
    THEN CASE pref = "distance" ->
                 IF d.distance_km <= t.distance_km THEN d ELSE t
           [] pref = "transit_first" -> t
           [] pref = "driving_first" -> d
           [] OTHER ->
                 IF d.duration_minutes <= t.duration_minutes THEN d ELSE t
    ELSE IF d # None THEN d
    ELSE IF t # None THEN t
    ELSE None

\* Mutant of SegmentEntry: the entry ends at the point it starts from.
SegmentEntrySameEnd(from, to, seg) ==
    IF seg # None
    THEN [from |-> from.name, to |-> from.name,
          distance_km |-> Fmt1(Float(seg.distance_km, 1000)),
          duration_m |-> Fmt0(Float(seg.duration_minutes, 60)),
          mode |-> seg.strategy]
    ELSE [from |-> from.name, to |-> from.name, error |-> "Could not calculate route"]

\* Mutant of SegmentEntry: a failed leg is recorded as a zero-valued segment.
SegmentEntryZero(from, to, seg) ==
    [from |-> from.name, to |-> to.name,
     distance_km |-> IF seg # None THEN Fmt1(Float(seg.distance_km, 1000)) ELSE Fmt1(FloatZero),
     duration_m |-> IF seg # None THEN Fmt0(Float(seg.duration_minutes, 60)) ELSE Fmt0(FloatZero),
     mode |-> IF seg # None THEN seg.strategy ELSE ""]

\* The entry appended to segments for leg (from, to).
SegmentEntry(from, to, seg) ==
    IF seg # None
    THEN [from |-> from.name, to |-> to.name,
          distance_km |-> Fmt1(Float(seg.distance_km, 1000)),
          duration_m |-> Fmt0(Float(seg.duration_minutes, 60)),
          mode |-> seg.strategy]
    ELSE [from |-> from.name, to |-> to.name, error |-> "Could not calculate route"]

\* Mutant of AddDist: the total is overwritten instead of increased.
AddDistOverwrite(total, seg) ==
    IF seg # None THEN Float(seg.distance_km, 1000) ELSE total

\* total_dist += segment.distance_km, only for a segment.
AddDist(total, seg) ==
    IF seg # None THEN FloatAdd(total, Float(seg.distance_km, 1000)) ELSE total

\* total_time += segment.duration_minutes, only for a segment.
AddTime(total, seg) ==
    IF seg # None THEN FloatAdd(total, Float(seg.duration_minutes, 60)) ELSE total

\* The dict returned for a tour.
TourResult(p, segs, dist, time) ==
    [success |-> TRUE,
     optimized_order |-> [k \in 1..Len(p) |-> p[k].name],
     poi_details |-> [k \in 1..Len(p) |->
                         [name |-> p[k].name, lat |-> p[k].lat, lng |-> p[k].lng,
                          address |-> p[k].address]],
     segments |-> segs,
     total_distance_km |-> Fmt1(dist),
     total_duration_hours |-> Fmt1(FloatDiv(time, 60))]

NoLocations == [error |-> "No valid locations found"]

\* Mutant of NoValidLocations: the call fails as soon as one name fails.
AnyUnresolved(rs, resolved) == resolved = <<>> \/ Len(resolved) < Len(rs)

\* `if not resolved_locations`: the whole call fails.
NoValidLocations(rs, resolved) == resolved = <<>>

TourInit ==
    /\ pc = "call"
    /\ \E in \in Inputs :
          /\ locations = in.locations
          /\ strategy = in.strategy
          /\ preference = in.preference
    /\ results = <<>>
    /\ path = <<>>
    /\ i = 0
    /\ segments = <<>>
    /\ total_dist = FloatZero
    /\ total_time = FloatZero
    /\ d_res = None
    /\ t_res = None
    /\ segment = None
    /\ chosen = <<>>
    /\ leg_requests = <<>>
    /\ result = None
    /\ response = None

\* The gather completes: steps 1 and 2, and the return when there is no leg.
ResolveAll ==
    /\ pc = "call"
    /\ \E datas \in SearchOutcomes(locations) :
          LET rs == Gather(locations, datas)
              resolved == ResolvedLocations(rs)
          IN  /\ results' = rs
              /\ IF NoValidLocations(rs, resolved)
                 THEN /\ path' = path
                      /\ pc' = "done"
                      /\ result' = NoLocations
                      /\ response' = optimize_route_response(locations, NoLocations)
                 ELSE LET p == GreedyPath(resolved)
                      IN  /\ path' = p
                          /\ pc' = IF Len(p) > 1 THEN "routing" ELSE "done"
                          /\ result' = IF Len(p) > 1 THEN None
                                       ELSE TourResult(p, <<>>, FloatZero, FloatZero)
                          /\ response' =
                                 IF Len(p) > 1 THEN None
                                 ELSE optimize_route_response(
                                          locations, TourResult(p, <<>>, FloatZero, FloatZero))
    /\ UNCHANGED <<locations, strategy, preference, i, segments, total_dist,
                   total_time, d_res, t_res, segment, chosen, leg_requests>>
    /\ UNCHANGED exceptTour

\* The lookups of leg i+1 complete: the entry is recorded, and after the last
\* leg the tour is returned.
Leg ==
    /\ pc = "routing"
    /\ LET from == path[i + 1]
           to == path[i + 2]
           record(d, t, seg) ==
               \E segs \in {Append(segments, SegmentEntry(from, to, seg))},
                  dist \in {AddDist(total_dist, seg)},
                  time \in {AddTime(total_time, seg)} :
                   /\ d_res' = d
                   /\ t_res' = t
                   /\ segment' = seg
                   /\ chosen' = Append(chosen, seg)
                   /\ segments' = segs
                   /\ total_dist' = dist
                   /\ total_time' = time
                   /\ i' = i + 1
                   /\ IF i + 2 = Len(path)
                      THEN /\ pc' = "done"
                           /\ \E res \in {TourResult(path, segs, dist, time)} :
                                 /\ result' = res
                                 /\ response' = optimize_route_response(locations, res)
                      ELSE /\ pc' = "routing"
                           /\ result' = result
                           /\ response' = response
       IN  IF strategy \in SmartStrategies
           THEN /\ leg_requests' = <<AmapRequest(from, to, "driving"),
                                     AmapRequest(from, to, "transit")>>
                /\ \E dd \in RouteResponses(AmapRequest(from, to, "driving").endpoint),
                      td \in RouteResponses(AmapRequest(from, to, "transit").endpoint) :
                      \E d \in {get_travel_route(from, to, "driving", dd)},
                         t \in {get_travel_route(from, to, "transit", td)} :
                         \E seg \in {SmartChoice(preference, d, t)} : record(d, t, seg)
           ELSE /\ leg_requests' = <<AmapRequest(from, to, strategy)>>
                /\ \E data \in RouteResponses(AmapRequest(from, to, strategy).endpoint) :
                      \E seg \in {get_travel_route(from, to, strategy, data)} :
                         record(d_res, t_res, seg)
    /\ UNCHANGED <<locations, strategy, preference, results, path>>
    /\ UNCHANGED exceptTour

\* No get_travel_route call of its own is in progress.
RouteIdle ==
    /\ rt_pc = "idle"
    /\ rt_origin = None
    /\ rt_destination = None
    /\ rt_mode = ""
    /\ rt_request = None
    /\ rt_data = None
    /\ rt_result = None

\* No resolution or search call of its own is in progress.
ResolveIdle ==
    /\ rs_pc = "idle"
    /\ rs_op = ""
    /\ rs_query = ""
    /\ rs_city = ""
    /\ rs_data = None
    /\ rs_geo = <<>>
    /\ rs_requests = <<>>
    /\ rs_result = None
    /\ rs_status = 0

\* No optimize_route call is followed task by task.
TasksIdle ==
    /\ ta_pc = "idle"
    /\ ta_locations = <<>>
    /\ ta_strategy = ""
    /\ ta_preference = ""
    /\ ta_tasks = <<>>
    /\ ta_order = <<>>
    /\ ta_results = None
    /\ ta_path = <<>>
    /\ ta_leg = 0
    /\ ta_lookups = <<>>
    /\ ta_events = <<>>
    /\ ta_segments = <<>>
    /\ ta_chosen = <<>>
    /\ ta_total_dist = FloatZero
    /\ ta_total_time = FloatZero
    /\ ta_result = None

\* The plan store is not in use.
StoreIdle ==
    /\ st_pc = "idle"
    /\ st_file = None
    /\ st_count = 0
    /\ st_last = None

\* No calculate_segment call is in progress.
SegIdle ==
    /\ sg_pc = "idle"
    /\ sg_origin_name = ""
    /\ sg_dest_name = ""
    /\ sg_mode = ""
    /\ sg_city = ""
    /\ sg_rail = None
    /\ sg_now = 0
    /\ sg_stations = None
    /\ sg_origin = None
    /\ sg_dest = None
    /\ sg_train = None
    /\ sg_segment = None
    /\ sg_requests = <<>>
    /\ sg_result = None
    /\ sg_response = None

Init == TourInit /\ RouteIdle /\ ResolveIdle /\ SegIdle /\ StoreIdle /\ TasksIdle

Next == ResolveAll \/ Leg

Spec == Init /\ [][Next]_vars

(***************************************************************************)
(* get_travel_route on its own, over a wider set of provider answers.      *)
(***************************************************************************)
RouteModes == {"driving", "transit", "walking", "bicycling", "train"}

\* Endpoints with and without a city.
RouteEnds ==
    {Location("P", 0, 0, "addrP", "GZ"), Location("Q", 3, 4, "", "")}

BusChoices ==
    {<<>>,
     <<BusLine(LineName("A", "(a--b)"), 3000)>>,
     <<BusLine(LineName("A", "(c--d)"), 1200), BusLine(LineName("B", ""), 9000)>>,
     <<BusLine(LineName("", ""), 2000)>>}

RailChoices == {NoRail, [name |-> "R1", distance |-> 5000]}

SubLegs == {SubLeg(w, b, r) : w \in {0, 500}, b \in BusChoices, r \in RailChoices}

\* What a directions endpoint can answer.
RouteAnswers(endpoint) ==
    {ProviderError, EmptyResponse, RouteOk(<<>>, <<>>)}
    \cup
    (IF endpoint = "transit"
     THEN {[status |-> "ok", paths |-> <<>>,
            transits |-> <<Itinerary(top, 1800, segs)>>, distance |-> 700] :
               top \in {0, 900}, segs \in SeqsUpTo(SubLegs, MaxSubLegs)}
     ELSE {RouteOk(<<Path1(0, 0)>>, <<>>),
           RouteOk(<<Path1(4200, 600), Path1(100, 60)>>, <<>>)})

RouteInit ==
    /\ rt_pc = "call"
    /\ rt_origin \in RouteEnds
    /\ rt_destination \in RouteEnds
    /\ rt_mode \in RouteModes
    /\ rt_request = None
    /\ rt_data = None
    /\ rt_result = None

\* No optimize_route call is in progress.
TourIdle ==
    /\ pc = "idle"
    /\ locations = <<>>
    /\ strategy = ""
    /\ preference = ""
    /\ results = <<>>
    /\ path = <<>>
    /\ i = 0
    /\ segments = <<>>
    /\ total_dist = FloatZero
    /\ total_time = FloatZero
    /\ d_res = None
    /\ t_res = None
    /\ segment = None
    /\ chosen = <<>>
    /\ leg_requests = <<>>
    /\ result = None
    /\ response = None

\* The request is built and sent.
RouteCall ==
    /\ rt_pc = "call"
    /\ rt_request' = AmapRequest(rt_origin, rt_destination, rt_mode)
    /\ rt_pc' = "await"
    /\ UNCHANGED <<rt_origin, rt_destination, rt_mode, rt_data, rt_result>>
    /\ UNCHANGED exceptRoute

\* The provider answers (or fails) and the answer is normalised.
RouteReturn ==
    /\ rt_pc = "await"
    /\ \E data \in RouteAnswers(rt_request.endpoint) :
          /\ rt_data' = data
          /\ rt_result' = get_travel_route(rt_origin, rt_destination, rt_mode, data)
    /\ rt_pc' = "done"
    /\ UNCHANGED <<rt_origin, rt_destination, rt_mode, rt_request>>
    /\ UNCHANGED exceptRoute

RouteNext == RouteCall \/ RouteReturn

InitRoute == RouteInit /\ TourIdle /\ ResolveIdle /\ SegIdle /\ StoreIdle /\ TasksIdle

SpecRoute == InitRoute /\ [][RouteNext]_vars

(***************************************************************************)
(* get_location_details behind the resolve_location endpoint, and          *)
(* search_locations, with the provider requests they issue on record.      *)
(*                                                                         *)
(* The provider's candidate of rank k is named "p<k>" and, when it carries *)
(* coordinates, lies at (k, k); a geocoding hit for it lies at             *)
(* (k+10, k+10).  Every candidate carries a cityname ("GZ"), so the        *)
(* default of poi.get("cityname", city) is not taken.                      *)
(***************************************************************************)
\* amap_service.text_search(keywords, city=city, page_size=page_size)
TextSearchRequest(keywords, city, page_size) ==
    [endpoint |-> "text_search", keywords |-> keywords, city |-> city,
     page_size |-> page_size]

\* amap_service.geocode(address, city=city)
GeocodeRequest(address, city) ==
    [endpoint |-> "geocode", address |-> address, city |-> city]

\* address.split('(')[0] and then the same split at the full-width opening
\* parenthesis (U+FF08, written "[" in the model), on the addresses of the
\* model.
CleanAddress(address) ==
    CASE address = "road(gate)" -> "road"
      [] address = "yard[north]" -> "yard"
      [] OTHER -> address

\* `if not location_str and top_poi.get("address")`: the fallback is taken.
NeedsGeocode(poi) == poi.location = <<>> /\ poi.address # ""

\* The requests get_location_details issues.
ResolveRequests(place_name, city, data) ==
    <<TextSearchRequest(place_name, city, 5)>> \o
    (IF data.status = "ok" /\ data.pois # <<>> /\ NeedsGeocode(data.pois[1])
     THEN <<GeocodeRequest(data.pois[1].address, city)>>
     ELSE <<>>)

\* routes.py resolve_location: the status answered for a result.
ResolveStatus(res) == IF res = None THEN 404 ELSE 200

\* `for poi in pois[:8]`
SearchLimit == 8

\* pois[:8]
TopCandidates(pois) ==
    SubSeq(pois, 1, IF Len(pois) < SearchLimit THEN Len(pois) ELSE SearchLimit)

\* One iteration of the loop of search_locations: the Location appended for a
\* candidate, as a list of at most one element.
SearchCandidate(poi, geo_data) ==
    LET geocoded ==
            IF geo_data.status = "error" THEN <<>>
            ELSE IF geo_data.geocodes # <<>>
                 THEN geo_data.geocodes[1].location
                 ELSE <<>>
        loc_str == IF NeedsGeocode(poi) THEN geocoded ELSE poi.location
    IN  IF Len(loc_str) = 2
        THEN <<Location(poi.name, loc_str[2], loc_str[1], poi.address, poi.cityname)>>
        ELSE <<>>

\* Mutant of search_locations: the first candidate that yields nothing ends
\* the loop.
RECURSIVE SearchLoopStop(_, _, _)
SearchLoopStop(pois, geo, k) ==
    IF k > Len(pois) \/ SearchCandidate(pois[k], geo[k]) = <<>> THEN <<>>
    ELSE SearchCandidate(pois[k], geo[k]) \o SearchLoopStop(pois, geo, k + 1)

search_locations_stop(query, city, data, geo) ==
    IF data.status = "error" THEN <<>>
    ELSE SearchLoopStop(TopCandidates(data.pois), geo, 1)

\* The loop from rank k on.
RECURSIVE SearchLoop(_, _, _)
SearchLoop(pois, geo, k) ==
    IF k > Len(pois) THEN <<>>
    ELSE SearchCandidate(pois[k], geo[k]) \o SearchLoop(pois, geo, k + 1)

\* data: the text_search response or ProviderError; geo[k]: the geocode
\* response (or ProviderError) given to a request made for candidate k.
search_locations(query, city, data, geo) ==
    IF data.status = "error" THEN <<>>
    ELSE SearchLoop(TopCandidates(data.pois), geo, 1)

\* The geocoding requests of the loop from rank k on.
RECURSIVE SearchGeocodes(_, _)
SearchGeocodes(pois, k) ==
    IF k > Len(pois) THEN <<>>
    ELSE (IF NeedsGeocode(pois[k])
          THEN <<GeocodeRequest(CleanAddress(pois[k].address), pois[k].cityname)>>
          ELSE <<>>) \o SearchGeocodes(pois, k + 1)

\* The requests search_locations issues.
SearchRequests(query, city, data) ==
    <<TextSearchRequest(query, city, 10)>> \o
    (IF data.status = "ok" THEN SearchGeocodes(TopCandidates(data.pois), 1) ELSE <<>>)

\* --- the provider of these calls -------------------------------------------
\* Most candidates of a short answer, and of the varied head of a long one.
MaxCandidates == 2
\* Most candidates of a long answer at rank SearchLimit and beyond.
MaxTail == 2

\* What a candidate is like: it carries coordinates; or only an address, for
\* which geocoding gives a hit ("hit"), a first hit without coordinates
\* ("blank"), no hit ("miss") or a provider failure ("err"); or neither.
Kinds == {"coords", "hit", "blank", "miss", "err", "bare"}

CandidatePoi(k, kind) ==
    [name |-> "p" \o ToString(k),
     location |-> IF kind = "coords" THEN <<k, k>> ELSE <<>>,
     address |-> CASE kind = "coords" -> "addr"
                   [] kind = "hit" -> "road(gate)"
                   [] kind = "blank" -> "lane"
                   [] kind = "miss" -> "lane"
                   [] kind = "err" -> "yard[north]"
                   [] OTHER -> "",
     cityname |-> "GZ"]

CandidateGeo(k, kind) ==
    CASE kind = "hit" -> GeoOk(<<[location |-> <<k + 10, k + 10>>],
                                 [location |-> <<99, 99>>]>>)
      [] kind = "blank" -> GeoOk(<<[location |-> <<>>], [location |-> <<99, 99>>]>>)
      [] kind = "err" -> ProviderError
      [] OTHER -> GeoOk(<<>>)

\* Short answers vary in every candidate; long answers vary in their first
\* MaxCandidates candidates and from rank SearchLimit on, the candidates
\* between carry coordinates.
KindLists ==
    SeqsUpTo(Kinds, MaxCandidates)
    \cup
    {head \o [k \in 1..(SearchLimit - 1 - MaxCandidates) |-> "coords"] \o tail :
        head \in [1..MaxCandidates -> Kinds], tail \in SeqsUpTo(Kinds, MaxTail)}

\* The inputs and provider answers of a call.
ResolveInputs ==
    {[op |-> op, city |-> city, data |-> ProviderError, geo |-> <<>>] :
        op \in {"resolve", "search"}, city \in {"", "SZ"}}
    \cup
    {[op |-> op, city |-> city,
      data |-> SearchOk([k \in 1..Len(kinds) |-> CandidatePoi(k, kinds[k])]),
      geo |-> [k \in 1..Len(kinds) |-> CandidateGeo(k, kinds[k])]] :
        op \in {"resolve", "search"}, city \in {"", "SZ"},
        kinds \in {q \in KindLists : Len(q) <= MaxCandidates}}
    \cup
    {[op |-> "search", city |-> "SZ",
      data |-> SearchOk([k \in 1..Len(kinds) |-> CandidatePoi(k, kinds[k])]),
      geo |-> [k \in 1..Len(kinds) |-> CandidateGeo(k, kinds[k])]] :
        kinds \in {q \in KindLists : Len(q) > MaxCandidates}}

ResolveInit ==
    /\ rs_pc = "call"
    /\ \E in \in ResolveInputs :
          /\ rs_op = in.op
          /\ rs_city = in.city
          /\ rs_data = in.data
          /\ rs_geo = in.geo
    /\ rs_query = "q"
    /\ rs_requests = <<>>
    /\ rs_result = None
    /\ rs_status = 0

\* The requests the call issues one after the other, each after the answer to
\* the one before: which requests follow the text search depends on the text
\* search's answer only, a geocoding failure is caught where it happens.
CallRequests ==
    IF rs_op = "resolve" THEN ResolveRequests(rs_query, rs_city, rs_data)
    ELSE SearchRequests(rs_query, rs_city, rs_data)

\* The call runs up to its next `await amap_service...`: it issues the
\* request and is suspended there, still pending.  The first step issues the
\* text search; a later one takes the answer to the request before and issues
\* the geocoding request that follows it.
\* get_location_details: line 85, then line 102.
ResolveLocationAwait ==
    /\ rs_pc = "call"
    /\ rs_op = "resolve"
    /\ Len(rs_requests) < Len(CallRequests)
    /\ rs_requests' = Append(rs_requests, CallRequests[Len(rs_requests) + 1])
    /\ UNCHANGED <<rs_pc, rs_op, rs_query, rs_city, rs_data, rs_geo, rs_result,
                   rs_status>>
    /\ UNCHANGED exceptResolve

\* POST /travel/locations/resolve: the last request is answered,
\* get_location_details returns and the endpoint answers.
ResolveLocation ==
    /\ rs_pc = "call"
    /\ rs_op = "resolve"
    /\ Len(rs_requests) = Len(CallRequests)
    /\ LET geo_data == IF rs_geo = <<>> THEN GeoOk(<<>>) ELSE rs_geo[1]
           res == get_location_details(rs_query, rs_city, rs_data, geo_data)
       IN  /\ rs_result' = res
           /\ rs_status' = ResolveStatus(res)
    /\ rs_pc' = "done"
    /\ UNCHANGED <<rs_op, rs_query, rs_city, rs_data, rs_geo, rs_requests>>
    /\ UNCHANGED exceptResolve

\* search_locations: line 134, then line 150 once for each candidate of the
\* loop that has an address and no coordinates.
SearchLocationsAwait ==
    /\ rs_pc = "call"
    /\ rs_op = "search"
    /\ Len(rs_requests) < Len(CallRequests)
    /\ rs_requests' = Append(rs_requests, CallRequests[Len(rs_requests) + 1])
    /\ UNCHANGED <<rs_pc, rs_op, rs_query, rs_city, rs_data, rs_geo, rs_result,
                   rs_status>>
    /\ UNCHANGED exceptResolve

\* The last request is answered and search_locations returns.
SearchLocations ==
    /\ rs_pc = "call"
    /\ rs_op = "search"
    /\ Len(rs_requests) = Len(CallRequests)
    /\ rs_result' = search_locations(rs_query, rs_city, rs_data, rs_geo)
    /\ rs_pc' = "done"
    /\ UNCHANGED <<rs_op, rs_query, rs_city, rs_data, rs_geo, rs_requests,
                   rs_status>>
    /\ UNCHANGED exceptResolve

ResolveNext ==
    \/ ResolveLocationAwait
    \/ ResolveLocation
    \/ SearchLocationsAwait
    \/ SearchLocations

InitResolve == ResolveInit /\ TourIdle /\ RouteIdle /\ SegIdle /\ StoreIdle /\ TasksIdle

SpecResolve == InitResolve /\ [][ResolveNext]_vars

(***************************************************************************)
(* calculate_segment: cost heuristics, the mode mapping and the rail       *)
(* lookup _query_train_12306.                                              *)
(*                                                                         *)
(* Units of the returned dict: distance_km in metres, duration_minutes in  *)
(* whole minutes, cost_estimate in whole yuan.                             *)
(***************************************************************************)
\* Mutant of Cost: the transit fare is flat below 20 km.
CostFlatTransit(mode, dist) ==
    CASE mode = "driving" -> IF 35 * dist > 100000 THEN 35 * dist ELSE 100000
      [] mode = "transit" -> IF dist < 20000 THEN 20000 ELSE 5 * dist
      [] mode = "flight" -> 1500000 + 8 * dist
      [] mode = "train" -> 5 * dist
      [] OTHER -> 0

\* The value of `cost` for a mode and segment.distance_km (dist, in metres),
\* in ten-thousandths of a yuan: every product of the code is exact there.
Cost(mode, dist) ==
    CASE mode = "driving" -> IF 35 * dist > 100000 THEN 35 * dist ELSE 100000
      [] mode = "transit" ->
            IF dist < 20000 THEN (2 + dist \div 5000) * 10000 ELSE 5 * dist
      [] mode = "flight" -> 1500000 + 8 * dist
      [] mode = "train" -> 5 * dist
      [] OTHER -> 0

\* int(cost)
CostEstimate(mode, dist) == Cost(mode, dist) \div 10000

\* Mutant of AmapMode: train is not mapped and stays on the default.
AmapModeTrainDriving(mode) ==
    IF mode \in {"transit", "flight"} THEN "transit"
    ELSE IF mode = "walking" THEN "walking"
    ELSE IF mode = "cycling" THEN "bicycling"
    ELSE "driving"

\* amap_mode
AmapMode(mode) ==
    IF mode \in {"transit", "train", "flight"} THEN "transit"
    ELSE IF mode = "walking" THEN "walking"
    ELSE IF mode = "cycling" THEN "bicycling"
    ELSE "driving"

\* {"name": ..., "lat": ..., "lng": ..., "address": ..., "city": ...}
PointDict(loc) ==
    [name |-> loc.name, lat |-> loc.lat, lng |-> loc.lng, address |-> loc.address,
     city |-> loc.city]

\* The dict returned for a routed segment.
SegmentResult(origin, dest, mode, seg) ==
    [origin |-> PointDict(origin), destination |-> PointDict(dest),
     distance_km |-> 10 * Round2(Float(seg.distance_km, 1000)),
     duration_minutes |-> seg.duration_minutes \div 60,
     cost_estimate |-> CostEstimate(mode, seg.distance_km),
     mode |-> mode,
     details |-> [transit_steps |-> seg.steps]]

\* The dict returned for a train found by the rail lookup.
TrainResult(origin, dest, train_data) ==
    [origin |-> PointDict(origin), destination |-> PointDict(dest),
     distance_km |-> train_data.distance_km,
     duration_minutes |-> train_data.duration_minutes,
     cost_estimate |-> train_data.cost_estimate,
     mode |-> "train",
     details |-> [train_no |-> train_data.train_no,
                  from_station |-> train_data.from_station,
                  to_station |-> train_data.to_station,
                  departure_time |-> train_data.departure_time,
                  arrival_time |-> train_data.arrival_time,
                  total_trains |-> train_data.total_trains,
                  transit_steps |-> <<[kind |-> "ride", name |-> train_data.train_no,
                                      dist |-> 0]>>]]

\* round(_haversine_km(...), 1), in metres, for two points on one meridian
\* or both on the equator, d <= 180 whole degrees apart.  The great circle
\* through them has the length R * radians(d); one degree is
\* 6371 * pi / 180 = 111.194926645 km, taken here as 111194 m and 926645
\* micrometres so that every product stays within 32 bits.  No d > 0 puts
\* the length on a tie of the rounding.
HaversineKm(lat1, lng1, lat2, lng2) ==
    LET dlat == IF lat1 < lat2 THEN lat2 - lat1 ELSE lat1 - lat2
        dlng == IF lng1 < lng2 THEN lng2 - lng1 ELSE lng1 - lng2
        d == dlat + dlng
        metres == 111194 * d + (926645 * d) \div 1000000
        micro == (926645 * d) % 1000000
        \* what lies beyond the last whole 0.1 km, in micrometres
        rest == (metres % 100) * 1000000 + micro
    IN  100 * (metres \div 100 + (IF 2 * rest > 100000000 THEN 1 ELSE 0))

\* --- the date of the ticket query -------------------------------------------
\* The civil date (proleptic Gregorian) of a day number counted from
\* 1970-01-01, as datetime arithmetic computes it.
CivilFromDays(days) ==
    LET z == days + 719468
        era == z \div 146097
        doe == z - era * 146097
        yoe == (doe - doe \div 1460 + doe \div 36524 - doe \div 146096) \div 365
        doy == doe - (365 * yoe + yoe \div 4 - yoe \div 100)
        mp == (5 * doy + 2) \div 153
        d == doy - (153 * mp + 2) \div 5 + 1
        m == IF mp < 10 THEN mp + 3 ELSE mp - 9
        y == yoe + era * 400 + (IF m <= 2 THEN 1 ELSE 0)
    IN  [year |-> y, month |-> m, day |-> d]

\* Two digits, zero padded.
Pad2(n) == IF n < 10 THEN "0" \o ToString(n) ELSE ToString(n)

\* strftime("%Y-%m-%d")
DateString(date) ==
    ToString(date.year) \o "-" \o Pad2(date.month) \o "-" \o Pad2(date.day)

\* The day number of the calendar day an instant (minutes since
\* 1970-01-01T00:00Z) falls on, in the zone `offset` hours east of UTC.
DayInZone(now, offset) == (now + 60 * offset) \div 1440

\* tz_cn = timezone(timedelta(hours=8))
TzCnHours == 8

\* Mutant of Tomorrow: the calendar day is taken in UTC.
TomorrowUtc(now) == DateString(CivilFromDays(DayInZone(now, 0) + 1))

\* (datetime.now(tz_cn) + timedelta(days=1)).strftime("%Y-%m-%d")
Tomorrow(now) == DateString(CivilFromDays(DayInZone(now, TzCnHours) + 1))

\* --- the rail lookup -------------------------------------------------------
\* The MCP service of the rail-schedule provider.
RailEndpoint == "train_12306"

\* A tool call whose result string is no JSON (an error text of call_tool):
\* json.loads raises.
ToolError == [status |-> "error"]

\* The station the provider knows under a name.
Station(name) == [station_code |-> "code:" \o name, station_name |-> name]

\* _generate_station_candidates, on the place names of the model: only
\* "S Station" ends in a station suffix, none is an airport.
StationCandidates(name, city) ==
    IF name = "S Station" THEN <<"S Station", "S">> ELSE <<name>>

\* `a in b` for two names of the model.
Contains(b, a) == a = b \/ (a = "S" /\ b = "S Station")

\* Mutant of resolve_12306_station: the list of the city's stations is
\* consulted first and the candidate names only when it has no match.
resolve_12306_station_city_first(name, city, by_names, in_city) ==
    LET candidates == StationCandidates(name, city)
        direct == IF by_names.status = "ok"
                  THEN SelectSeq(candidates, LAMBDA c : c \in by_names.known)
                  ELSE <<>>
        matches ==
            IF city # "" /\ in_city.status = "ok"
            THEN SelectSeq(in_city.stations,
                           LAMBDA st : /\ st.station_name # ""
                                       /\ \/ Contains(name, st.station_name)
                                          \/ Contains(st.station_name, name))
            ELSE <<>>
    IN  IF matches # <<>> THEN matches[1]
        ELSE IF direct # <<>> THEN Station(direct[1])
        ELSE None

\* by_names: the answer of get-station-code-by-names, [status, known] with
\* known the names it has a station for.  in_city: the answer of
\* get-stations-code-in-city, [status, stations].
resolve_12306_station(name, city, by_names, in_city) ==
    LET candidates == StationCandidates(name, city)
        direct == IF by_names.status = "ok"
                  THEN SelectSeq(candidates, LAMBDA c : c \in by_names.known)
                  ELSE <<>>
        matches ==
            IF city # "" /\ in_city.status = "ok"
            THEN SelectSeq(in_city.stations,
                           LAMBDA st : /\ st.station_name # ""
                                       /\ \/ Contains(name, st.station_name)
                                          \/ Contains(st.station_name, name))
            ELSE <<>>
    IN  IF direct # <<>> THEN Station(direct[1])
        ELSE IF matches # <<>> THEN matches[1]
        ELSE None

\* The tool calls of one station resolution.
StationRequests(name, city, by_names) ==
    LET candidates == StationCandidates(name, city)
        found == by_names.status = "ok" /\ \E k \in 1..Len(candidates) :
                                               candidates[k] \in by_names.known
    IN  <<[endpoint |-> RailEndpoint, tool |-> "get-station-code-by-names",
           stationNames |-> candidates]>> \o
        (IF ~found /\ city # ""
         THEN <<[endpoint |-> RailEndpoint, tool |-> "get-stations-code-in-city",
                 city |-> city]>>
         ELSE <<>>)

\* d.get(key, default)
Get(d, key, default) == IF key \in DOMAIN d THEN d[key] ELSE default

\* A duration text "HH:MM" is the sequence of its characters: a digit is its
\* value and the colon is 10, which keeps the order of the character codes.
Colon == 10

\* a < b as Python compares strings.
RECURSIVE LexLess(_, _)
LexLess(a, b) ==
    IF b = <<>> THEN FALSE
    ELSE IF a = <<>> THEN TRUE
    ELSE IF a[1] # b[1] THEN a[1] < b[1]
    ELSE LexLess(Tail(a), Tail(b))

\* min(tickets, key=lambda t: t.get("lishi", "99:99")): the first minimum.
RECURSIVE MinByLishi(_, _)
MinByLishi(best, tickets) ==
    IF tickets = <<>> THEN best
    ELSE MinByLishi(IF LexLess(Head(tickets).lishi, best.lishi)
                    THEN Head(tickets) ELSE best,
                    Tail(tickets))

\* int(text) of a digit sequence; -1 stands for ValueError.
RECURSIVE DigitsValue(_, _)
DigitsValue(acc, digits) ==
    IF digits = <<>> THEN acc
    ELSE IF Head(digits) = Colon THEN -1
    ELSE DigitsValue(10 * acc + Head(digits), Tail(digits))

\* The index of the first colon of a text from position k on, 0 if none.
RECURSIVE ColonFrom(_, _)
ColonFrom(text, k) ==
    IF k > Len(text) THEN 0
    ELSE IF text[k] = Colon THEN k
    ELSE ColonFrom(text, k + 1)

\* duration_min of a duration text; -1 stands for the ValueError of int().
DurationMin(lishi) ==
    LET c == ColonFrom(lishi, 1)
    IN  IF c = 0 THEN 0
        ELSE LET c2 == ColonFrom(lishi, c + 1)
                 hours == SubSeq(lishi, 1, c - 1)
                 mins == SubSeq(lishi, c + 1, IF c2 = 0 THEN Len(lishi) ELSE c2 - 1)
             IN  IF hours = <<>> \/ mins = <<>> THEN -1
                 ELSE 60 * DigitsValue(0, hours) + DigitsValue(0, mins)

\* The first truthy price of the seat types, 0 if none.
FirstPrice(prices) ==
    LET priced == SelectSeq(prices, LAMBDA p : p # 0)
    IN  IF priced = <<>> THEN 0 ELSE priced[1]

\* rail: the rail provider, [available, by_names, in_city, tickets]; now: the
\* clock when the ticket query is built.  The result is train data or None.
\* The tickets of the provider carry no from_station and no to_station, so
\* the defaults of best.get are what is returned for them.
query_train_12306(origin, destination, rail, now) ==
    IF ~rail.available THEN None
    ELSE
      LET origin_station ==
              resolve_12306_station(origin.name, origin.city, rail.by_names, rail.in_city)
          dest_station ==
              resolve_12306_station(destination.name, destination.city,
                                    rail.by_names, rail.in_city)
      IN  IF origin_station = None \/ dest_station = None THEN None
          ELSE IF rail.tickets.status # "ok" THEN None
          ELSE IF rail.tickets.list = <<>> THEN None
          ELSE
            LET best == MinByLishi(Head(rail.tickets.list), Tail(rail.tickets.list))
                duration_min == DurationMin(best.lishi)
            IN  IF duration_min < 0 THEN None
                ELSE [duration_minutes |-> duration_min,
                      distance_km |-> HaversineKm(origin.lat, origin.lng,
                                                  destination.lat, destination.lng),
                      cost_estimate |-> FirstPrice(best.prices),
                      train_no |-> best.start_train_code,
                      from_station |-> origin_station.station_name,
                      to_station |-> dest_station.station_name,
                      departure_time |-> Get(best, "start_time", ""),
                      arrival_time |-> Get(best, "arrive_time", ""),
                      total_trains |-> Len(rail.tickets.list)]

\* Mutant of ModeMinDistanceKm: a table with minimum distances for the
\* long-distance modes (300 km by train, 500 km by air).
ModeMinDistanceKmLongHaul(mode) ==
    CASE mode = "train" -> [metres |-> 300000]
      [] mode = "flight" -> [metres |-> 500000]
      [] OTHER -> None

\* --- the call ---------------------------------------------------------------
\* MODE_MIN_DISTANCE_KM.get(mode): the table is empty.
ModeMinDistanceKm(mode) == None

\* The dict returned when the mode is implausible for the distance
\* (straight_line in metres).
ModeNotSuitable(mode, straight_line) ==
    [error |-> "mode not suitable", error_type |-> "mode_not_suitable",
     straight_line_km |-> straight_line, mode_requested |-> mode]

\* Longest routed distance of the dense range, in half kilometres.
MaxHalfKm == 41

\* The distances (metres) the directions provider answers with: every half
\* kilometre up to the bound, and some beyond and between; 0.015 and 0.025
\* are decimal ties at two decimals.
SegDistances ==
    {500 * k : k \in 0..MaxHalfKm} \cup {15, 25, 2857, 2858, 100000, 100600}

\* What a directions endpoint can answer to calculate_segment's lookup.
SegRouteAnswers(endpoint) ==
    {ProviderError, RouteOk(<<>>, <<>>)}
    \cup
    (IF endpoint = "transit"
     THEN {RouteOk(<<>>, <<Itinerary(d, 1830, <<>>)>>) : d \in SegDistances}
          \cup {RouteOk(<<>>, <<Itinerary(500, 1830,
                   <<SubLeg(500, <<BusLine(LineName("A", "(a--b)"), 7500)>>, NoRail)>>)>>)}
     ELSE {RouteOk(<<Path1(d, 1830)>>, <<>>) : d \in SegDistances})

SegNames == {"A", "S", "X"}

SegModes == {"driving", "transit", "walking", "cycling", "train", "flight", "bus"}

NoRailService ==
    [available |-> FALSE, by_names |-> ToolError, in_city |-> ToolError,
     tickets |-> ToolError]

\* A train: duration text, the prices of its seat types (0: none given), number.
Ticket(lishi, prices, start_train_code) ==
    [lishi |-> lishi, prices |-> prices, start_train_code |-> start_train_code]

\* A train whose departure and arrival times the provider gives as well.
TimedTicket(lishi, prices, start_train_code, start_time, arrive_time) ==
    [lishi |-> lishi, prices |-> prices, start_train_code |-> start_train_code,
     start_time |-> start_time, arrive_time |-> arrive_time]

\* "00:35", "01:10" and a second "00:35"; "9:59" and "10:00" in both orders;
\* a train with its times.
TicketAnswers ==
    {ToolError, [status |-> "notlist"], [status |-> "ok", list |-> <<>>],
     [status |-> "ok",
      list |-> <<TimedTicket(<<0, 0, Colon, 4, 0>>, <<35>>, "C7", "08:00", "08:40")>>],
     [status |-> "ok", list |-> <<Ticket(<<0, 0, Colon, 3, 5>>, <<0, 25>>, "G1")>>],
     [status |-> "ok", list |-> <<Ticket(<<0, 1, Colon, 1, 0>>, <<40>>, "D2"),
                                  Ticket(<<0, 0, Colon, 3, 5>>, <<0, 25>>, "G1"),
                                  Ticket(<<0, 0, Colon, 3, 5>>, <<>>, "K3")>>],
     [status |-> "ok", list |-> <<Ticket(<<9, Colon, 5, 9>>, <<30>>, "Z9"),
                                  Ticket(<<1, 0, Colon, 0, 0>>, <<50>>, "T10")>>],
     [status |-> "ok", list |-> <<Ticket(<<1, 0, Colon, 0, 0>>, <<50>>, "T10"),
                                  Ticket(<<9, Colon, 5, 9>>, <<30>>, "Z9")>>]}

RailWorlds ==
    {NoRailService}
    \cup
    {[available |-> TRUE, by_names |-> bn, in_city |-> ic, tickets |-> tk] :
        bn \in {ToolError} \cup
               {[status |-> "ok", known |-> kn] :
                   kn \in {{}, {"A"}, {"A", "S"}, {"A", "S", "S Station"}}},
        ic \in {ToolError, [status |-> "ok", stations |-> <<>>],
                [status |-> "ok", stations |-> <<Station("S"), Station("A")>>],
                [status |-> "ok",
                 stations |-> <<Station("B"), Station("S Station"), Station("S")>>]},
        tk \in TicketAnswers}

\* The clock: the last and the first minute of a UTC day and of a day of
\* UTC+8 (15:59 and 16:00 UTC), on 2024-02-28, 2024-02-29 and 2024-12-31.
Nows == {1440 * day + minute : day \in {19781, 19782, 20088},
                               minute \in {0, 959, 960, 1439}}

\* The inputs of a call and the rail provider it meets.
SegInputs ==
    {[origin_name |-> o, dest_name |-> d, mode |-> m, rail |-> NoRailService] :
        o \in SegNames, d \in SegNames, m \in SegModes}
    \cup
    {[origin_name |-> o, dest_name |-> d, mode |-> "train", rail |-> r] :
        o \in SegNames, d \in SegNames, r \in RailWorlds}

SegInit ==
    /\ sg_pc = "origin"
    /\ \E in \in SegInputs :
          /\ sg_origin_name = in.origin_name
          /\ sg_dest_name = in.dest_name
          /\ sg_mode = in.mode
          /\ sg_rail = in.rail
    /\ sg_city = ""
    /\ sg_now = 0
    /\ sg_stations = None
    /\ sg_origin = None
    /\ sg_dest = None
    /\ sg_train = None
    /\ sg_segment = None
    /\ sg_requests = <<>>
    /\ sg_result = None
    /\ sg_response = None

\* origin = await self.get_location_details(origin_name, city)
SegResolveOrigin ==
    /\ sg_pc = "origin"
    /\ \E data \in TextSearch(sg_origin_name) :
          /\ sg_origin' = get_location_details(sg_origin_name, sg_city, data,
                                               Geocode(TopAddress(data)))
          /\ sg_requests' = sg_requests \o ResolveRequests(sg_origin_name, sg_city, data)
    /\ sg_pc' = "sleep"
    /\ UNCHANGED <<sg_origin_name, sg_dest_name, sg_mode, sg_city, sg_rail, sg_now,
                   sg_stations,
                   sg_dest, sg_train, sg_segment, sg_result, sg_response>>
    /\ UNCHANGED exceptSeg

\* Mutant of SegSleep: the destination's resolution follows the origin's
\* without the pause.
SegNoPause ==
    /\ sg_pc = "sleep"
    /\ sg_pc' = "dest"
    /\ UNCHANGED <<sg_origin_name, sg_dest_name, sg_mode, sg_city, sg_rail, sg_now,
                   sg_stations,
                   sg_origin, sg_dest, sg_train, sg_segment, sg_requests, sg_result,
                   sg_response>>
    /\ UNCHANGED exceptSeg

\* await asyncio.sleep(0.4)
SegSleep ==
    /\ sg_pc = "sleep"
    /\ sg_requests' = Append(sg_requests, [endpoint |-> "sleep"])
    /\ sg_pc' = "dest"
    /\ UNCHANGED <<sg_origin_name, sg_dest_name, sg_mode, sg_city, sg_rail, sg_now,
                   sg_stations,
                   sg_origin, sg_dest, sg_train, sg_segment, sg_result, sg_response>>
    /\ UNCHANGED exceptSeg

\* dest = await self.get_location_details(dest_name, city), the check of the
\* two results and the plausibility check of the mode.
SegResolveDest ==
    /\ sg_pc = "dest"
    /\ \E data \in TextSearch(sg_dest_name) :
          LET dest == get_location_details(sg_dest_name, sg_city, data,
                                           Geocode(TopAddress(data)))
              min_km == ModeMinDistanceKm(sg_mode)
          IN  /\ sg_dest' = dest
              /\ sg_requests' = sg_requests \o ResolveRequests(sg_dest_name, sg_city, data)
              /\ IF sg_origin = None \/ dest = None
                 THEN /\ sg_result' = [error |-> "Could not resolve locations"]
                      /\ sg_response' = calculate_segment_endpoint(
                                            [error |-> "Could not resolve locations"])
                      /\ sg_pc' = "done"
                 ELSE IF min_km # None /\
                         HaversineKm(sg_origin.lat, sg_origin.lng, dest.lat, dest.lng)
                             < min_km.metres
                 THEN /\ sg_result' =
                             ModeNotSuitable(sg_mode,
                                 HaversineKm(sg_origin.lat, sg_origin.lng,
                                             dest.lat, dest.lng))
                      /\ sg_response' = calculate_segment_endpoint(
                             ModeNotSuitable(sg_mode,
                                 HaversineKm(sg_origin.lat, sg_origin.lng,
                                             dest.lat, dest.lng)))
                      /\ sg_pc' = "done"
                 ELSE /\ sg_result' = sg_result
                      /\ sg_response' = sg_response
                      /\ sg_pc' = IF sg_mode = "train" THEN "rail" ELSE "route"
    /\ UNCHANGED <<sg_origin_name, sg_dest_name, sg_mode, sg_city, sg_rail, sg_now,
                   sg_stations,
                   sg_origin, sg_train, sg_segment>>
    /\ UNCHANGED exceptSeg

\* Where a call of _resolve_12306_station is: suspended at a tool call, or
\* ended with its result, a station or None.
AtTool(tool) == [at |-> tool]
Returned12306(station) == [at |-> "return", station |-> station]

\* get-tickets, as _query_train_12306 calls it.
TicketsRequest(origin_station, dest_station, now) ==
    [endpoint |-> RailEndpoint, tool |-> "get-tickets", date |-> Tomorrow(now),
     fromStation |-> origin_station.station_code,
     toStation |-> dest_station.station_code]

\* train_data = await self._query_train_12306(origin, dest), up to its first
\* suspension.  Without the rail service it returns None at once.  Otherwise
\* asyncio.gather starts the two station resolutions, the origin's first,
\* and each runs up to its by-names call.
SegRail ==
    /\ sg_pc = "rail"
    /\ IF ~sg_rail.available
       THEN /\ sg_pc' = "route"
            /\ UNCHANGED <<sg_stations, sg_requests>>
       ELSE /\ sg_stations' = [origin |-> AtTool("get-station-code-by-names"),
                               dest |-> AtTool("get-station-code-by-names")]
            /\ sg_requests' = sg_requests \o
                  <<StationRequests(sg_origin.name, sg_origin.city, sg_rail.by_names)[1],
                    StationRequests(sg_dest.name, sg_dest.city, sg_rail.by_names)[1]>>
            /\ sg_pc' = "stations"
    /\ UNCHANGED <<sg_origin_name, sg_dest_name, sg_mode, sg_city, sg_rail, sg_now,
                   sg_origin, sg_dest, sg_train, sg_segment, sg_result, sg_response>>
    /\ UNCHANGED exceptSeg

\* One of the two station resolutions gets the answer to the tool call it is
\* suspended at, whichever answer comes first: after the by-names call it
\* returns the station found or goes on to the city-list call, after the
\* city-list call it returns.
SegStation ==
    /\ sg_pc = "stations"
    /\ \E end \in {"origin", "dest"} :
          LET loc == IF end = "origin" THEN sg_origin ELSE sg_dest
              calls == StationRequests(loc.name, loc.city, sg_rail.by_names)
          IN  /\ sg_stations[end].at # "return"
              /\ IF sg_stations[end].at = "get-station-code-by-names" /\ Len(calls) = 2
                 THEN /\ sg_stations' =
                            [sg_stations EXCEPT
                                ![end] = AtTool("get-stations-code-in-city")]
                      /\ sg_requests' = Append(sg_requests, calls[2])
                 ELSE /\ sg_stations' =
                            [sg_stations EXCEPT
                                ![end] = Returned12306(
                                    resolve_12306_station(loc.name, loc.city,
                                        sg_rail.by_names, sg_rail.in_city))]
                      /\ sg_requests' = sg_requests
    /\ UNCHANGED <<sg_pc, sg_origin_name, sg_dest_name, sg_mode, sg_city, sg_rail,
                   sg_now, sg_origin, sg_dest, sg_train, sg_segment, sg_result,
                   sg_response>>
    /\ UNCHANGED exceptSeg

\* Both resolutions have returned and the gather with them.  With a station
\* missing there is no train data; otherwise the clock is read and the
\* ticket query issued.
SegTickets ==
    /\ sg_pc = "stations"
    /\ sg_stations.origin.at = "return"
    /\ sg_stations.dest.at = "return"
    /\ IF sg_stations.origin.station = None \/ sg_stations.dest.station = None
       THEN /\ sg_pc' = "route"
            /\ UNCHANGED <<sg_now, sg_requests>>
       ELSE /\ \E now \in Nows :
                  /\ sg_now' = now
                  /\ sg_requests' =
                         Append(sg_requests,
                                TicketsRequest(sg_stations.origin.station,
                                               sg_stations.dest.station, now))
            /\ sg_pc' = "tickets"
    /\ UNCHANGED <<sg_origin_name, sg_dest_name, sg_mode, sg_city, sg_rail,
                   sg_stations, sg_origin, sg_dest, sg_train, sg_segment, sg_result,
                   sg_response>>
    /\ UNCHANGED exceptSeg

\* The ticket query is answered: _query_train_12306 returns, and
\* calculate_segment with it when there is a train.
SegTrain ==
    /\ sg_pc = "tickets"
    /\ \E train_data \in {query_train_12306(sg_origin, sg_dest, sg_rail, sg_now)} :
          /\ sg_train' = train_data
          /\ IF train_data # None
             THEN /\ sg_result' = TrainResult(sg_origin, sg_dest, train_data)
                  /\ sg_response' = calculate_segment_endpoint(
                                        TrainResult(sg_origin, sg_dest, train_data))
                  /\ sg_pc' = "done"
             ELSE /\ sg_result' = sg_result
                  /\ sg_response' = sg_response
                  /\ sg_pc' = "route"
    /\ UNCHANGED <<sg_origin_name, sg_dest_name, sg_mode, sg_city, sg_rail, sg_now,
                   sg_stations, sg_origin, sg_dest, sg_segment, sg_requests>>
    /\ UNCHANGED exceptSeg

\* Mutant of SegRoute: a failure of the directions provider is not caught
\* and leaves calculate_segment as an exception.
SegRouteRaises ==
    /\ sg_pc = "route"
    /\ LET amap_mode == AmapMode(sg_mode)
           request == AmapRequest(sg_origin, sg_dest, amap_mode)
       IN  /\ sg_requests' = Append(sg_requests, request)
           /\ \E data \in SegRouteAnswers(request.endpoint) :
                 LET seg == get_travel_route(sg_origin, sg_dest, amap_mode, data)
                 IN  /\ sg_segment' = seg
                     /\ sg_result' =
                            IF data = ProviderError THEN None
                            ELSE IF seg = None
                            THEN [error |-> "Could not calculate route"]
                            ELSE SegmentResult(sg_origin, sg_dest, sg_mode, seg)
                     /\ sg_response' = sg_response
                     /\ sg_pc' = IF data = ProviderError THEN "raised" ELSE "done"
    /\ UNCHANGED <<sg_origin_name, sg_dest_name, sg_mode, sg_city, sg_rail, sg_now,
                   sg_stations,
                   sg_origin, sg_dest, sg_train>>
    /\ UNCHANGED exceptSeg

\* segment = await self.get_travel_route(origin, dest, mode=amap_mode), the
\* cost and the return.
SegRoute ==
    /\ sg_pc = "route"
    /\ LET amap_mode == AmapMode(sg_mode)
           request == AmapRequest(sg_origin, sg_dest, amap_mode)
       IN  /\ sg_requests' = Append(sg_requests, request)
           /\ \E data \in SegRouteAnswers(request.endpoint) :
                 \E seg \in {get_travel_route(sg_origin, sg_dest, amap_mode, data)} :
                    /\ sg_segment' = seg
                    /\ \E res \in {IF seg = None
                                   THEN [error |-> "Could not calculate route"]
                                   ELSE SegmentResult(sg_origin, sg_dest, sg_mode, seg)} :
                          /\ sg_result' = res
                          /\ sg_response' = calculate_segment_endpoint(res)
    /\ sg_pc' = "done"
    /\ UNCHANGED <<sg_origin_name, sg_dest_name, sg_mode, sg_city, sg_rail, sg_now,
                   sg_stations,
                   sg_origin, sg_dest, sg_train>>
    /\ UNCHANGED exceptSeg

SegNext ==
    \/ SegResolveOrigin
    \/ SegSleep
    \/ SegResolveDest
    \/ SegRail
    \/ SegStation
    \/ SegTickets
    \/ SegTrain
    \/ SegRoute

InitSegment == SegInit /\ TourIdle /\ RouteIdle /\ ResolveIdle /\ StoreIdle /\ TasksIdle

SpecSegment == InitSegment /\ [][SegNext]_vars

(***************************************************************************)
(* optimize_route task by task.                                            *)
(*                                                                         *)
(* asyncio.gather starts the coroutines it is given as tasks and returns   *)
(* their results, in the order given, when the last has ended.  A task     *)
(* ends when the provider has answered its request; tasks end in any       *)
(* order.  The legs are computed one after the other by one loop.          *)
(***************************************************************************)
\* The longest list of names of a call followed task by task.
MaxTaskLocs == 3

TaskInputs ==
    [locations : SeqsUpTo(LegNames, MaxTaskLocs), strategy : {"smart", "driving"},
     preference : {"time", "transit_first"}]

Running == [state |-> "running", result |-> None]

Ended(r) == [state |-> "done", result |-> r]

Cancelled == [state |-> "cancelled", result |-> None]

RunningAt(tasks) == {k \in 1..Len(tasks) : tasks[k].state = "running"}

\* Mutant of CancelledBy: a resolution that fails cancels the resolutions
\* still running (a gather that gives up at the first failure).
CancelledByFailFast(tasks, outcome) == IF outcome = None THEN RunningAt(tasks) ELSE {}

\* The sibling tasks a task ending with `outcome` cancels: none.
\* get_location_details returns None on every failure and the gather is
\* made with return_exceptions=True.
CancelledBy(tasks, outcome) == {}

\* Mutant of LegChoice: of two segments the one whose lookup ended first.
LegChoiceFirstDone(pref, d, t, first) ==
    IF d # None /\ t # None THEN (IF first = "driving" THEN d ELSE t)
    ELSE SmartChoice(pref, d, t)

\* The choice after `d_res, t_res = await asyncio.gather(...)`; first is the
\* mode whose lookup ended first.
LegChoice(pref, d, t, first) == SmartChoice(pref, d, t)

TasksInit ==
    /\ ta_pc = "gather"
    /\ \E in \in TaskInputs :
          /\ ta_locations = in.locations
          /\ ta_strategy = in.strategy
          /\ ta_preference = in.preference
          /\ ta_tasks = [k \in 1..Len(in.locations) |-> Running]
    /\ ta_order = <<>>
    /\ ta_results = None
    /\ ta_path = <<>>
    /\ ta_leg = 0
    /\ ta_lookups = <<>>
    /\ ta_events = <<>>
    /\ ta_segments = <<>>
    /\ ta_chosen = <<>>
    /\ ta_total_dist = FloatZero
    /\ ta_total_time = FloatZero
    /\ ta_result = None

\* One resolution task ends: the provider answers and get_location_details
\* returns.
TaskFinish ==
    /\ ta_pc = "gather"
    /\ \E k \in RunningAt(ta_tasks) :
          \E data \in TextSearch(ta_locations[k]) :
             LET outcome == get_location_details(ta_locations[k], "", data,
                                                 Geocode(TopAddress(data)))
                 cancelled == CancelledBy(ta_tasks, outcome) \ {k}
             IN  /\ ta_tasks' = [j \in 1..Len(ta_tasks) |->
                                    IF j = k THEN Ended(outcome)
                                    ELSE IF j \in cancelled THEN Cancelled
                                    ELSE ta_tasks[j]]
                 /\ ta_order' = Append(ta_order, k)
    /\ UNCHANGED <<ta_pc, ta_locations, ta_strategy, ta_preference, ta_results,
                   ta_path, ta_leg, ta_lookups, ta_events, ta_segments, ta_chosen,
                   ta_total_dist, ta_total_time, ta_result>>
    /\ UNCHANGED exceptTasks

\* The gather returns: the filter of the results, the greedy order, and the
\* return when there is no leg.
TaskJoin ==
    /\ ta_pc = "gather"
    /\ RunningAt(ta_tasks) = {}
    /\ LET rs == [k \in 1..Len(ta_tasks) |-> ta_tasks[k].result]
           resolved == ResolvedLocations(rs)
       IN  /\ ta_results' = rs
           /\ IF NoValidLocations(rs, resolved)
              THEN /\ ta_path' = ta_path
                   /\ ta_pc' = "done"
                   /\ ta_result' = NoLocations
              ELSE LET p == GreedyPath(resolved)
                   IN  /\ ta_path' = p
                       /\ ta_pc' = IF Len(p) > 1 THEN "leg" ELSE "done"
                       /\ ta_result' = IF Len(p) > 1 THEN None
                                        ELSE TourResult(p, <<>>, FloatZero, FloatZero)
    /\ UNCHANGED <<ta_locations, ta_strategy, ta_preference, ta_tasks, ta_order,
                   ta_leg, ta_lookups, ta_events, ta_segments, ta_chosen,
                   ta_total_dist, ta_total_time>>
    /\ UNCHANGED exceptTasks

Event(kind, leg, mode) == [kind |-> kind, leg |-> leg, mode |-> mode]

\* The modes looked up for a leg, in the order the coroutines are created.
LegModes(strat) ==
    IF strat \in SmartStrategies THEN <<"driving", "transit">> ELSE <<strat>>

\* The lookups of leg ta_leg + 1 are issued: both of a smart leg before
\* either is awaited.
LegIssue ==
    /\ ta_pc = "leg"
    /\ LET modes == LegModes(ta_strategy)
       IN  /\ ta_lookups' = [j \in 1..Len(modes) |->
                                [mode |-> modes[j], state |-> "running", result |-> None]]
           /\ ta_events' = [j \in 1..Len(modes) |-> Event("issue", ta_leg + 1, modes[j])]
    /\ ta_pc' = "lookups"
    /\ UNCHANGED <<ta_locations, ta_strategy, ta_preference, ta_tasks, ta_order,
                   ta_results, ta_path, ta_leg, ta_segments, ta_chosen,
                   ta_total_dist, ta_total_time, ta_result>>
    /\ UNCHANGED exceptTasks

\* One lookup of the current leg ends: the provider answers and
\* get_travel_route returns.
LookupFinish ==
    /\ ta_pc = "lookups"
    /\ LET from == ta_path[ta_leg + 1]
           to == ta_path[ta_leg + 2]
       IN  \E j \in {k \in 1..Len(ta_lookups) : ta_lookups[k].state = "running"} :
              LET mode == ta_lookups[j].mode
              IN  \E data \in RouteResponses(AmapRequest(from, to, mode).endpoint) :
                     /\ ta_lookups' =
                            [ta_lookups EXCEPT
                                ![j] = [mode |-> mode, state |-> "done",
                                        result |-> get_travel_route(from, to, mode, data)]]
                     /\ ta_events' = Append(ta_events, Event("finish", ta_leg + 1, mode))
    /\ UNCHANGED <<ta_pc, ta_locations, ta_strategy, ta_preference, ta_tasks, ta_order,
                   ta_results, ta_path, ta_leg, ta_segments, ta_chosen,
                   ta_total_dist, ta_total_time, ta_result>>
    /\ UNCHANGED exceptTasks

\* The mode of the first "finish" event of the current leg.
FirstFinished(events) ==
    LET ends == SelectSeq(events, LAMBDA e : e.kind = "finish")
    IN  IF ends = <<>> THEN "" ELSE ends[1].mode

\* The await of the leg returns: the choice, the entry, and after the last
\* leg the return of the tour.
LegRecord ==
    /\ ta_pc = "lookups"
    /\ \A j \in 1..Len(ta_lookups) : ta_lookups[j].state = "done"
    /\ LET from == ta_path[ta_leg + 1]
           to == ta_path[ta_leg + 2]
           seg == IF ta_strategy \in SmartStrategies
                  THEN LegChoice(ta_preference, ta_lookups[1].result,
                                 ta_lookups[2].result, FirstFinished(ta_events))
                  ELSE ta_lookups[1].result
       IN  \E segs \in {Append(ta_segments, SegmentEntry(from, to, seg))},
              dist \in {AddDist(ta_total_dist, seg)},
              time \in {AddTime(ta_total_time, seg)} :
              /\ ta_chosen' = Append(ta_chosen, seg)
              /\ ta_segments' = segs
              /\ ta_total_dist' = dist
              /\ ta_total_time' = time
              /\ ta_events' = Append(ta_events, Event("record", ta_leg + 1, ""))
              /\ IF ta_leg + 2 = Len(ta_path)
                 THEN /\ ta_pc' = "done"
                      /\ ta_result' = TourResult(ta_path, segs, dist, time)
                 ELSE /\ ta_pc' = "leg"
                      /\ ta_result' = ta_result
    /\ ta_leg' = ta_leg + 1
    /\ UNCHANGED <<ta_locations, ta_strategy, ta_preference, ta_tasks, ta_order,
                   ta_results, ta_path, ta_lookups>>
    /\ UNCHANGED exceptTasks

TasksNext == TaskFinish \/ TaskJoin \/ LegIssue \/ LookupFinish \/ LegRecord

InitTasks == TasksInit /\ TourIdle /\ RouteIdle /\ ResolveIdle /\ SegIdle /\ StoreIdle

SpecTasks == InitTasks /\ [][TasksNext]_vars

(***************************************************************************)
(* The two calls under the assumption that every provider call ends: a     *)
(* step of a call that is awaiting a provider (or the pause) is taken.     *)
(***************************************************************************)
\* The longest list of names of an optimize_route call followed here.
MaxLiveLocs == 2

InitCalls == (InitTasks /\ Len(ta_locations) <= MaxLiveLocs) \/ InitSegment

CallsNext == TasksNext \/ SegNext

SpecCalls ==
    InitCalls /\ [][CallsNext]_vars /\ WF_vars(TasksNext) /\ WF_vars(SegNext)

(***************************************************************************)
(* StorageService: the plans of plans.json.                                *)
(*                                                                         *)
(* The file holds one JSON object, plan id -> plan dict; in the model it   *)
(* is a function from the stored ids, or Unreadable.  A plan is            *)
(* [id, title, distance_km]: the title stands for the text fields besides  *)
(* id, distance_km for the float fields.  Every operation begins by        *)
(* reading the file; the read can fail (the file is not valid JSON or      *)
(* cannot be opened), and then _load_json gives the empty dict.  A write   *)
(* can fail as well, before or after open() has truncated the file, and    *)
(* _save_json only logs that.                                              *)
(***************************************************************************)
\* The most operations of one behaviour.
MaxOps == 3

PlanIds == {"p1", "p2", "p3"}

\* A title with a lone surrogate (U+D800) cannot be encoded as UTF-8.
LoneSurrogate == "t?D800"

Titles == {"t1", "t2", LoneSurrogate}

\* The values of an Optional[float]: a finite number, the two infinities and
\* NaN (as Python prints them), and None.
Floats == {"12.5", "inf", "nan", "None"}

\* Itinerary(id=..., title=..., days=[... distance_km=...]), a plan.
Plan(id, title, distance_km) ==
    [id |-> id, title |-> title, distance_km |-> distance_km]

Plans == {Plan(id, title, km) : id \in PlanIds, title \in Titles, km \in Floats}

\* PydanticSerializationError, raised by model_dump_json.
SerializationError == [raised |-> "PydanticSerializationError"]

\* model_dump_json of a float field: a non-finite value, like None, is null.
JsonFloat(x) == IF x \in {"inf", "nan", "None"} THEN "null" ELSE x

\* json.loads(plan.model_dump_json()): the JSON object of a plan, or the
\* error model_dump_json raises for a string it cannot encode.
PlanDict(plan) ==
    IF plan.title = LoneSurrogate THEN SerializationError
    ELSE [json |-> <<"id", plan.id, "title", plan.title,
                     "distance_km", JsonFloat(plan.distance_km)>>]

\* Itinerary.model_validate(plan_data)
ModelValidate(plan_data) ==
    Plan(plan_data.json[2], plan_data.json[4],
         IF plan_data.json[6] = "null" THEN "None" ELSE plan_data.json[6])

\* json.dump({}, f) of _ensure_files, and the `return {}` of _load_json.
EmptyDict == [k \in {} |-> None]

\* plans.json after a write that failed once open() had truncated it: empty
\* or cut short, no JSON document.
Unreadable == [unreadable |-> TRUE]

\* _load_json: the content, or {} when the read raised.
load_json(content, read_ok) ==
    IF read_ok /\ content # Unreadable THEN content ELSE EmptyDict

\* How a write ends: done; refused (open() raises, the file is as before);
\* cut (the failure comes after open() truncated the file).
Writes == {"done", "refused", "cut"}

\* _save_json: the content of the file after it.
save_json(content, data, write) ==
    CASE write = "done" -> data
      [] write = "refused" -> content
      [] OTHER -> Unreadable

\* data[key] = value
DictSet(data, key, value) ==
    [k \in DOMAIN data \cup {key} |-> IF k = key THEN value ELSE data[k]]

\* del data[key]
DictDel(data, key) == [k \in DOMAIN data \ {key} |-> data[k]]

\* save_plan: [returned, content], returned being the plan or the error
\* raised before anything is written.
save_plan(content, plan, read_ok, write) ==
    LET data == load_json(content, read_ok)
        plan_dict == PlanDict(plan)
    IN  IF plan_dict = SerializationError
        THEN [returned |-> SerializationError, content |-> content]
        ELSE [returned |-> plan,
              content |-> save_json(content, DictSet(data, plan.id, plan_dict), write)]

\* get_plan
get_plan(content, plan_id, read_ok) ==
    LET data == load_json(content, read_ok)
    IN  IF plan_id \in DOMAIN data THEN ModelValidate(data[plan_id]) ELSE None

\* delete_plan: [returned, content]
delete_plan(content, plan_id, read_ok, write) ==
    LET data == load_json(content, read_ok)
    IN  IF plan_id \in DOMAIN data
        THEN [returned |-> TRUE,
              content |-> save_json(content, DictDel(data, plan_id), write)]
        ELSE [returned |-> FALSE, content |-> content]

\* StorageService(): _ensure_files has written {} to a new plans.json.
StoreInit ==
    /\ st_pc = "open"
    /\ st_file = EmptyDict
    /\ st_count = 0
    /\ st_last = None

LastOp(op, id, plan, read_ok, write, returned) ==
    [op |-> op, id |-> id, plan |-> plan, read_ok |-> read_ok, write |-> write,
     before |-> st_file, returned |-> returned]

SavePlan ==
    /\ st_pc = "open"
    /\ st_count < MaxOps
    /\ \E plan \in Plans, read_ok \in BOOLEAN, write \in Writes :
          LET r == save_plan(st_file, plan, read_ok, write)
          IN  /\ st_file' = r.content
              /\ st_last' = LastOp("save_plan", plan.id, plan, read_ok, write,
                                   r.returned)
    /\ st_count' = st_count + 1
    /\ UNCHANGED st_pc
    /\ UNCHANGED exceptStore

GetPlan ==
    /\ st_pc = "open"
    /\ st_count < MaxOps
    /\ \E plan_id \in PlanIds, read_ok \in BOOLEAN :
          st_last' = LastOp("get_plan", plan_id, None, read_ok, "",
                            get_plan(st_file, plan_id, read_ok))
    /\ st_count' = st_count + 1
    /\ UNCHANGED <<st_pc, st_file>>
    /\ UNCHANGED exceptStore

DeletePlan ==
    /\ st_pc = "open"
    /\ st_count < MaxOps
    /\ \E plan_id \in PlanIds, read_ok \in BOOLEAN, write \in Writes :
          LET r == delete_plan(st_file, plan_id, read_ok, write)
          IN  /\ st_file' = r.content
              /\ st_last' = LastOp("delete_plan", plan_id, None, read_ok, write,
                                   r.returned)
    /\ st_count' = st_count + 1
    /\ UNCHANGED st_pc
    /\ UNCHANGED exceptStore

StoreNext == SavePlan \/ GetPlan \/ DeletePlan

InitStore == StoreInit /\ TourIdle /\ RouteIdle /\ ResolveIdle /\ SegIdle /\ TasksIdle

SpecStore == InitStore /\ [][StoreNext]_vars

(***************************************************************************)
(* Properties of optimize_route (specification Spec).                      *)
(***************************************************************************)
IsError(r) == "error" \in DOMAIN r

IsSuccess(r) == "success" \in DOMAIN r

IsErrorEntry(e) == DOMAIN e = {"from", "to", "error"}

IsSegmentEntry(e) == DOMAIN e = {"from", "to", "distance_km", "duration_m", "mode"}

Count(q, x) == Cardinality({k \in 1..Len(q) : q[k] = x})

NamesOf(q) == [k \in 1..Len(q) |-> q[k].name]

\* The positions of the input whose resolution gave a location.
ResolvedAt == {k \in 1..Len(results) : results[k] # None}

\* C1: the returned point sequence is a permutation of exactly the resolved
\* points (each as often as it was resolved, nothing else), and its first
\* element is the first input, in input order, that resolved.
C1_TourIsPermutationOfResolved ==
    (pc = "done" /\ ResolvedAt # {}) =>
        /\ IsSuccess(result)
        /\ Len(path) = Cardinality(ResolvedAt)
        /\ \A k \in 1..Len(path) :
              /\ path[k] # None
              /\ Count(path, path[k]) = Count(results, path[k])
        /\ \A k \in ResolvedAt : Count(path, results[k]) = Count(results, results[k])
        /\ LET first == CHOOSE k \in ResolvedAt : \A j \in ResolvedAt : k <= j
           IN  path[1] = results[first]
        /\ result.optimized_order = NamesOf(path)
        /\ NamesOf(result.poi_details) = NamesOf(path)

\* C1 witness: a tour of three points whose first input failed and whose order
\* differs from the input order.
C1_Witness ==
    /\ pc = "done"
    /\ IsSuccess(result)
    /\ Len(locations) = 4
    /\ results[1] = None
    /\ Len(path) = 3
    /\ path # ResolvedLocations(results)

\* C2: a tour of N >= 2 points has N-1 entries, and entry k, segment or error
\* placeholder, runs from the k-th to the (k+1)-th tour point.
C2_EntriesFollowTour ==
    /\ pc \in {"routing", "done"} =>
          /\ Len(segments) = i
          /\ \A k \in 1..Len(segments) :
                /\ segments[k].from = path[k].name
                /\ segments[k].to = path[k + 1].name
    /\ (pc = "done" /\ IsSuccess(result)) =>
          /\ Len(result.segments) = Len(result.optimized_order) - 1
          /\ \A k \in 1..Len(result.segments) :
                /\ result.segments[k].from = result.optimized_order[k]
                /\ result.segments[k].to = result.optimized_order[k + 1]

\* C2 witness: a returned smart tour with an error entry followed by a segment.
C2_Witness ==
    /\ pc = "done"
    /\ strategy = "smart"
    /\ IsSuccess(result)
    /\ Len(result.segments) = 2
    /\ IsErrorEntry(result.segments[1])
    /\ IsSegmentEntry(result.segments[2])
    /\ result.segments[1].from # result.segments[2].from

\* C3: the call returns the error result exactly when no name resolves (X is
\* the one name the provider cannot resolve); a failing name is dropped.
C3_ErrorIffNoneResolves ==
    /\ pc # "call" => \A k \in 1..Len(locations) :
                          (results[k] = None) <=> (locations[k] = "X")
    /\ pc = "done" => (IsError(result) <=> \A k \in 1..Len(locations) : locations[k] = "X")
    /\ pc = "done" => (IsError(result) \/ IsSuccess(result))

\* C3 witness: a tour returned although two of three names failed.
C3_Witness ==
    /\ pc = "done"
    /\ IsSuccess(result)
    /\ Len(locations) = 3
    /\ Cardinality(ResolvedAt) = 1

\* Every lookup of the last leg returned None.
LastLegUnavailable ==
    IF strategy \in SmartStrategies THEN d_res = None /\ t_res = None
    ELSE segment = None

\* C4: a leg whose lookups all returned Unavailable is recorded as an error
\* entry {from, to, error}, never as a segment entry, and the tour is still
\* returned as a success, whichever legs fail.
C4_FailedLegIsErrorEntry ==
    /\ Len(chosen) = Len(segments)
    /\ \A k \in 1..Len(segments) :
          IF chosen[k] = None THEN IsErrorEntry(segments[k])
          ELSE IsSegmentEntry(segments[k])
    /\ i >= 1 => (LastLegUnavailable <=> IsErrorEntry(segments[i]))
    /\ (pc = "done" /\ ResolvedAt # {}) =>
          IsSuccess(result) /\ result.segments = segments

\* C4 witness: a returned smart tour all of whose legs failed.
C4_Witness ==
    /\ pc = "done"
    /\ strategy = "recommend"
    /\ IsSuccess(result)
    /\ Len(result.segments) = 2
    /\ \A k \in 1..2 : IsErrorEntry(result.segments[k])

RECURSIVE SumDistance(_)
\* The float sum, in leg order, of the distance_km of the segments of segs.
SumDistance(segs) ==
    IF segs = <<>> THEN FloatZero
    ELSE LET front == SumDistance(SubSeq(segs, 1, Len(segs) - 1))
             last == segs[Len(segs)]
         IN  IF last = None THEN front
             ELSE FloatAdd(front, Float(last.distance_km, 1000))

RECURSIVE SumDuration(_)
\* The float sum, in leg order, of the duration_minutes of the segments.
SumDuration(segs) ==
    IF segs = <<>> THEN FloatZero
    ELSE LET front == SumDuration(SubSeq(segs, 1, Len(segs) - 1))
             last == segs[Len(segs)]
         IN  IF last = None THEN front
             ELSE FloatAdd(front, Float(last.duration_minutes, 60))

RECURSIVE Metres(_)
\* The exact sum of the distances of the segments of segs, in metres.
Metres(segs) ==
    IF segs = <<>> THEN 0
    ELSE (IF Head(segs) = None THEN 0 ELSE Head(segs).distance_km)
         + Metres(Tail(segs))

RECURSIVE Seconds(_)
\* The exact sum of the durations of the segments of segs, in seconds.
Seconds(segs) ==
    IF segs = <<>> THEN 0
    ELSE (IF Head(segs) = None THEN 0 ELSE Head(segs).duration_minutes)
         + Seconds(Tail(segs))

\* C5: the totals are the sums over the resolved legs only: the distance of
\* the chosen segments, and their minutes expressed in hours (both reported
\* with one decimal); error legs contribute nothing.  The sums are float
\* sums in leg order; to the metre and to the second they are the exact
\* sums of the legs.
C5_TotalsAreSumsOfResolvedLegs ==
    LET sum_dist == SumDistance(chosen)
        sum_time == SumDuration(chosen)
    IN  /\ total_dist = sum_dist
        /\ total_time = sum_time
        /\ RoundScaled(BigMul(sum_dist, 10), 100) = Metres(chosen)
        /\ RoundScaled(BigMul(sum_time, 6), 10) = Seconds(chosen)
        /\ (pc = "done" /\ IsSuccess(result)) =>
              /\ result.total_distance_km = Fmt1(sum_dist)
              /\ result.total_duration_hours = Fmt1(FloatDiv(sum_time, 60))

\* C5 witness: two resolved legs of 6.35 km and 8 km and 39 and 30 minutes.  The
\* float sums lie just below 14.35 km and 1.15 hours.
C5_Witness ==
    /\ pc = "done"
    /\ IsSuccess(result)
    /\ Len(chosen) = 2
    /\ chosen[1] # None /\ chosen[2] # None
    /\ chosen[1].strategy = "driving" /\ chosen[2].strategy = "A"
    /\ result.total_distance_km = "14.3"
    /\ result.total_duration_hours = "1.1"

\* C5 witness of an error leg among resolved ones.
C5_WitnessErrorLeg ==
    /\ pc = "done"
    /\ IsSuccess(result)
    /\ Len(chosen) = 3
    /\ chosen[2] = None
    /\ result.total_distance_km = "6.0"

\* The squared planar distance of two points in (latitude, longitude).
Euclid2(a, b) ==
    (a.lat - b.lat) * (a.lat - b.lat) + (a.lng - b.lng) * (a.lng - b.lng)

\* C6: every tour point after the first is, among the points not yet placed,
\* one nearest to its predecessor, and the order is what is returned; A, B,
\* D, C with A first gives [A, B, D, C] whatever the order of B, C, D.
C6_GreedyNearestNeighbour ==
    /\ \A k \in 2..Len(path) : \A j \in k..Len(path) :
          Euclid2(path[k - 1], path[k]) <= Euclid2(path[k - 1], path[j])
    /\ (pc = "done" /\ IsSuccess(result)) => result.optimized_order = NamesOf(path)
    /\ (/\ pc # "call"
        /\ Len(locations) = 4
        /\ locations[1] = "A"
        /\ {locations[k] : k \in 2..4} = {"B", "C", "D"})
       => NamesOf(path) = <<"A", "B", "D", "C">>

\* C6 witness: the example, given in the order A, C, D, B.
C6_Witness ==
    /\ pc = "done"
    /\ locations = <<"A", "C", "D", "B">>
    /\ result.optimized_order = <<"A", "B", "D", "C">>

\* C7: under a smart strategy the leg's segment follows the preference when
\* both lookups succeeded, is the only one that succeeded otherwise, and the
\* leg is an error entry when neither did.
C7_SmartSelection ==
    (strategy \in SmartStrategies /\ i >= 1) =>
        /\ (d_res # None /\ t_res # None) =>
              /\ segment \in {d_res, t_res}
              /\ preference = "distance" =>
                    /\ d_res.distance_km < t_res.distance_km => segment = d_res
                    /\ t_res.distance_km < d_res.distance_km => segment = t_res
              /\ preference = "transit_first" => segment = t_res
              /\ preference = "driving_first" => segment = d_res
              /\ preference \notin {"distance", "transit_first", "driving_first"} =>
                    /\ d_res.duration_minutes < t_res.duration_minutes => segment = d_res
                    /\ t_res.duration_minutes < d_res.duration_minutes => segment = t_res
              /\ (d_res.distance_km = 10000 /\ d_res.duration_minutes = 20 * 60
                  /\ t_res.distance_km = 8000 /\ t_res.duration_minutes = 30 * 60) =>
                    /\ preference = "time" => segment = d_res
                    /\ preference = "distance" => segment = t_res
                    /\ preference = "transit_first" => segment = t_res
        /\ (d_res # None /\ t_res = None) => segment = d_res
        /\ (d_res = None /\ t_res # None) => segment = t_res
        /\ (d_res = None /\ t_res = None) =>
              segment = None /\ IsErrorEntry(segments[i])
        /\ segment # None => segments[i].mode = segment.strategy

\* C7 witness: driving (10 km, 20 min) against transit (8 km, 30 min) under
\* the preference `distance`: transit is chosen.
C7_Witness ==
    /\ strategy = "best"
    /\ preference = "distance"
    /\ i >= 1
    /\ d_res # None /\ t_res # None
    /\ d_res.distance_km = 10000 /\ d_res.duration_minutes = 1200
    /\ t_res.distance_km = 8000 /\ t_res.duration_minutes = 1800
    /\ segment = t_res
    /\ segments[i].mode = "A"

(***************************************************************************)
(* Properties of get_travel_route (specification SpecRoute).               *)
(***************************************************************************)
\* The call returned and the answer holds a transit itinerary and no path.
TransitReturned ==
    /\ rt_pc = "done"
    /\ rt_data.status = "ok"
    /\ rt_data.paths = <<>>
    /\ rt_data.transits # <<>>

\* The distance of the parts of a sub-leg: its walking part, its bus part
\* (the first candidate line) and its rail part.
SubLegDistance(seg) ==
    seg.walking
    + (IF seg.bus # <<>> THEN seg.bus[1].distance ELSE 0)
    + seg.railway.distance

RECURSIVE ComponentSum(_)
ComponentSum(segs) ==
    IF segs = <<>> THEN 0
    ELSE SubLegDistance(Head(segs)) + ComponentSum(Tail(segs))

\* C8: the distance of a transit itinerary is the sum of the distances of
\* every sub-leg component present (walking, bus and rail parts), whatever
\* the top-level field says; that field is used only when no sub-leg carries
\* a distance.
C8_TransitDistanceIsComponentSum ==
    TransitReturned =>
        LET itinerary == rt_data.transits[1]
            sum == ComponentSum(itinerary.segments)
        IN  IF sum > 0 THEN rt_result.distance_km = sum
            ELSE rt_result.distance_km \in {itinerary.distance, rt_data.distance}

\* The names a sub-leg contributes: its bus line's and its rail's, when named.
SubLegNames(seg) ==
    (IF seg.bus # <<>> /\ SimpleName(seg.bus[1].name) # ""
     THEN <<SimpleName(seg.bus[1].name)>> ELSE <<>>)
    \o (IF seg.railway.name # "" THEN <<seg.railway.name>> ELSE <<>>)

RECURSIVE AllNames(_)
AllNames(segs) ==
    IF segs = <<>> THEN <<>> ELSE SubLegNames(Head(segs)) \o AllNames(Tail(segs))

\* q without the repetitions of its elements, first appearances kept.
RECURSIVE Distinct(_)
Distinct(q) ==
    IF q = <<>> THEN <<>>
    ELSE LET front == Distinct(SubSeq(q, 1, Len(q) - 1))
             last == q[Len(q)]
         IN  IF \E k \in 1..Len(front) : front[k] = last THEN front
             ELSE Append(front, last)

\* C9: the label of a transit itinerary is the " + "-joined list of the
\* distinct named bus lines and rails of its sub-legs in order of first
\* appearance, and exactly "Transit", never "", when no line is named.
C9_TransitLabelIsDistinctNames ==
    TransitReturned =>
        LET names == Distinct(AllNames(rt_data.transits[1].segments))
        IN  /\ rt_result.strategy # ""
            /\ rt_result.strategy = IF names = <<>> THEN "Transit" ELSE JoinPlus(names)

\* The provider's answer holds a path or a transit itinerary.
HasRoute(data) ==
    /\ data.status = "ok"
    /\ data.paths # <<>> \/ data.transits # <<>>

\* C10: a RouteSegment is returned only for an answer that holds a path or a
\* transit itinerary; a provider failure, an empty answer and an answer with
\* neither give None, never a segment of distance 0 and duration 0.
C10_SegmentOnlyForReturnedRoute ==
    rt_pc = "done" =>
        /\ HasRoute(rt_data) => rt_result # None
        /\ ~HasRoute(rt_data) => rt_result = None
        /\ (rt_result # None /\ rt_result.distance_km = 0
            /\ rt_result.duration_minutes = 0) => HasRoute(rt_data)

\* C10 witness: an answer with empty paths and empty transits gave None.
C10_Witness ==
    /\ rt_pc = "done"
    /\ rt_data = RouteOk(<<>>, <<>>)
    /\ rt_result = None

(***************************************************************************)
(* Properties of resolution and search (specification SpecResolve).        *)
(***************************************************************************)
ResolveDone == rs_pc = "done" /\ rs_op = "resolve"

SearchDone == rs_pc = "done" /\ rs_op = "search"

GeocodeRequests == SelectSeq(rs_requests, LAMBDA r : r.endpoint = "geocode")

\* The coordinates geocoding gives for the candidate of rank k: those of the
\* first hit, <<>> when the request fails or has no hit.
FirstHit(k) ==
    IF rs_geo[k].status = "error" \/ rs_geo[k].geocodes = <<>> THEN <<>>
    ELSE rs_geo[k].geocodes[1].location

\* C12: resolve looks at the top-ranked candidate only.  With coordinates of
\* its own the result is that candidate at those coordinates and no geocoding
\* request is made; without them, but with an address, one geocoding request
\* is made and the result is the candidate at the first hit's coordinates;
\* in every other case (provider failure, no candidate, neither coordinates
\* nor address, no hit or a hit without coordinates) the result is None.  A
\* lower-ranked candidate is never returned.
C12_ResolveUsesTopCandidateOnly ==
    ResolveDone =>
        IF rs_data.status = "error" \/ rs_data.pois = <<>>
        THEN rs_result = None /\ GeocodeRequests = <<>>
        ELSE LET top == rs_data.pois[1]
             IN  IF top.location # <<>>
                 THEN /\ GeocodeRequests = <<>>
                      /\ rs_result # None
                      /\ rs_result.name = top.name
                      /\ <<rs_result.lng, rs_result.lat>> = top.location
                 ELSE IF top.address # ""
                 THEN /\ Len(GeocodeRequests) = 1
                      /\ IF FirstHit(1) # <<>>
                         THEN /\ rs_result # None
                              /\ rs_result.name = top.name
                              /\ <<rs_result.lng, rs_result.lat>> = FirstHit(1)
                         ELSE rs_result = None
                 ELSE rs_result = None /\ GeocodeRequests = <<>>

\* The top candidate has only an address, geocoding places it, and a second
\* candidate with coordinates of its own was there to fall through to.
C12_Witness ==
    /\ ResolveDone
    /\ rs_data.status = "ok"
    /\ Len(rs_data.pois) = 2
    /\ rs_data.pois[1].location = <<>>
    /\ rs_data.pois[2].location # <<>>
    /\ rs_result # None
    /\ rs_result.name = "p1"
    /\ Len(GeocodeRequests) = 1

\* The top candidate cannot be placed while the second one carries
\* coordinates: the result is None.
C12_WitnessNoFallThrough ==
    /\ ResolveDone
    /\ rs_data.status = "ok"
    /\ Len(rs_data.pois) = 2
    /\ rs_data.pois[1].location = <<>>
    /\ rs_data.pois[2].location # <<>>
    /\ rs_result = None

\* C13: a provider transport failure during resolution is reported to the
\* caller as something other than NotFound: the value returned for a failed
\* text search is not the value returned when nothing is found, and the
\* endpoint does not answer 404 for it.
C13_FailureDistinctFromNotFound ==
    (ResolveDone /\ rs_data.status = "error") =>
        (rs_result # None /\ rs_status # 404)

\* The ranks, among the first SearchLimit, of the candidates that yield
\* coordinates: their own, or those of the first geocoding hit for their
\* address.
Yielding ==
    LET pois == rs_data.pois
        n == IF Len(pois) < SearchLimit THEN Len(pois) ELSE SearchLimit
    IN  SelectSeq([k \in 1..n |-> k],
                  LAMBDA k : IF pois[k].location # <<>> THEN TRUE
                             ELSE pois[k].address # "" /\ FirstHit(k) # <<>>)

\* C14: search returns at most 8 Points; they are, in rank order, exactly
\* the candidates among the provider's first 8 that yield coordinates, each
\* at its own coordinates or else at those of the first geocoding hit for
\* its address; a candidate that yields none is skipped and the later ones
\* are still processed.
C14_SearchKeepsFirstEightInOrder ==
    SearchDone =>
        /\ Len(rs_result) <= 8
        /\ IF rs_data.status = "error" THEN rs_result = <<>>
           ELSE /\ Len(rs_result) = Len(Yielding)
                /\ \A j \in 1..Len(rs_result) :
                      LET poi == rs_data.pois[Yielding[j]]
                      IN  /\ rs_result[j].name = poi.name
                          /\ <<rs_result[j].lng, rs_result[j].lat>> =
                                 IF poi.location # <<>> THEN poi.location
                                 ELSE FirstHit(Yielding[j])

\* More than 8 candidates, one of the first 8 is skipped (its geocoding
\* fails) and a later one of the first 8 is returned, one by geocoding.
C14_Witness ==
    /\ SearchDone
    /\ rs_data.status = "ok"
    /\ Len(rs_data.pois) > SearchLimit
    /\ rs_data.pois[Len(rs_data.pois)].location # <<>>
    /\ rs_geo[1].status = "error"
    /\ rs_data.pois[1].location = <<>>
    /\ Len(rs_result) = SearchLimit - 1
    /\ rs_result[1].name = "p2"
    /\ rs_result[1].lat = 12

\* C20: every geocoding request of resolve and of search carries a
\* candidate's address with the parenthetical qualifier stripped, and that
\* candidate's own city.
C20_GeocodeCarriesCleanAddressAndOwnCity ==
    rs_pc = "done" =>
        \A j \in 1..Len(GeocodeRequests) :
            \E k \in 1..Len(rs_data.pois) :
                GeocodeRequests[j] =
                    GeocodeRequest(CleanAddress(rs_data.pois[k].address),
                                   rs_data.pois[k].cityname)

(***************************************************************************)
(* Properties of the requests sent for a mode.                             *)
(***************************************************************************)
\* C19: in a transit request where exactly one endpoint carries a city, that
\* city is passed as the origin city and as the destination city, whichever
\* endpoint lacks it; when both carry one, each is passed as it is.
C19_TransitCityDefaultsToKnownCity ==
    (rt_pc \in {"await", "done"} /\ rt_request.endpoint = "transit") =>
        LET oc == rt_origin.city
            dc == rt_destination.city
        IN  /\ (oc # "" /\ dc = "") => (rt_request.city = oc /\ rt_request.cityd = oc)
            /\ (oc = "" /\ dc # "") => (rt_request.city = dc /\ rt_request.cityd = dc)
            /\ (oc # "" /\ dc # "") => (rt_request.city = oc /\ rt_request.cityd = dc)

\* C18: with a single named strategy every leg of optimize_route is obtained
\* by one direct call, and with the strategy "train" that call is the
\* rail-schedule lookup for the leg.
C18_TrainLegFromRailResolver ==
    (pc \in {"routing", "done"} /\ i >= 1 /\ strategy \notin SmartStrategies) =>
        /\ Len(leg_requests) = 1
        /\ strategy = "train" => leg_requests[1].endpoint = RailEndpoint

(***************************************************************************)
(* Properties of calculate_segment (specification SpecSegment).            *)
(***************************************************************************)
\* The call returned a routed segment.
SegRouted == sg_pc = "done" /\ sg_segment # None

\* The requests to the directions endpoints.
DirectionRequests ==
    SelectSeq(sg_requests,
              LAMBDA r : r.endpoint \in {"driving", "transit", "walking", "bicycling"})

\* The requests to the rail-schedule provider's ticket tool.
TicketRequests ==
    SelectSeq(sg_requests,
              LAMBDA r : r.endpoint = RailEndpoint /\ r.tool = "get-tickets")

CostModes == {"driving", "transit", "flight", "train", "walking", "cycling"}

\* The cost formula of a mode for a distance d in metres, in ten-thousandths
\* of a yuan: driving max(10, 3.5 d), transit 2 + floor(d / 5) below 20 km
\* and 0.5 d from there, flight 150 + 0.8 d, train 0.5 d, walking and
\* cycling 0.
FormulaCost(mode, d) ==
    CASE mode = "driving" -> IF 35 * d >= 100000 THEN 35 * d ELSE 100000
      [] mode = "transit" ->
            IF d < 20000 THEN 20000 + 10000 * (d \div 5000) ELSE 5 * d
      [] mode = "flight" -> 1500000 + 8 * d
      [] mode = "train" -> 5 * d
      [] mode \in {"walking", "cycling"} -> 0

\* C11 as stated: the cost attached to a routed segment of distance d is the
\* value of the cost formula of its mode.
C11_CostIsFormulaValue ==
    (SegRouted /\ sg_mode \in CostModes) =>
        10000 * sg_result.cost_estimate = FormulaCost(sg_mode, sg_segment.distance_km)

\* C11 (amended): the cost attached to a routed segment of distance d is the
\* integer part of the value of the cost formula of its mode.
C11_CostIsFormulaIntegerPart ==
    (SegRouted /\ sg_mode \in CostModes) =>
        /\ 10000 * sg_result.cost_estimate <=
               FormulaCost(sg_mode, sg_segment.distance_km)
        /\ FormulaCost(sg_mode, sg_segment.distance_km) <
               10000 * (sg_result.cost_estimate + 1)

\* Driving over 3 km: the formula gives 10.5, the attached cost is 10.
C11_Witness ==
    /\ SegRouted
    /\ sg_mode = "driving"
    /\ sg_segment.distance_km = 3000
    /\ sg_result.cost_estimate = 10

\* A transit segment just below and at 20 km, and a flight of 100 km.
C11_WitnessTransitStep ==
    /\ SegRouted
    /\ \/ sg_mode = "transit" /\ sg_segment.distance_km = 19500
                              /\ sg_result.cost_estimate = 5
       \/ sg_mode = "transit" /\ sg_segment.distance_km = 20000
                              /\ sg_result.cost_estimate = 10
       \/ sg_mode = "flight" /\ sg_segment.distance_km = 100000
                             /\ sg_result.cost_estimate = 230

\* The rail lookup is Unavailable for one of the reasons of the claim.
RailUnavailableCase ==
    \/ ~sg_rail.available
    \/ resolve_12306_station(sg_origin.name, sg_origin.city,
                             sg_rail.by_names, sg_rail.in_city) = None
    \/ resolve_12306_station(sg_dest.name, sg_dest.city,
                             sg_rail.by_names, sg_rail.in_city) = None
    \/ sg_rail.tickets.status # "ok"
    \/ sg_rail.tickets.list = <<>>

\* C15: a calculate_segment call with mode train does not fail because of
\* the rail lookup.  When the lookup is Unavailable (service not registered,
\* a station not resolved, the ticket query failed or found no train) the
\* call goes on with the transit route, and if there is one the result is a
\* segment of mode "train" with the distance, duration and steps of the
\* transit data; the call fails only when there is no transit route.  When
\* the lookup yields a train, no directions request is made and the cost is
\* the rail price.
C15_TrainFallsBackToTransit ==
    (sg_pc = "done" /\ sg_mode = "train" /\ sg_origin # None /\ sg_dest # None) =>
        /\ RailUnavailableCase => sg_train = None
        /\ sg_train = None =>
              /\ Len(DirectionRequests) = 1
              /\ DirectionRequests[1].endpoint = "transit"
              /\ sg_segment # None =>
                    /\ ~IsError(sg_result)
                    /\ sg_result.mode = "train"
                    /\ sg_result.distance_km =
                          10 * Round2(Float(sg_segment.distance_km, 1000))
                    /\ sg_result.duration_minutes = sg_segment.duration_minutes \div 60
                    /\ sg_result.details.transit_steps = sg_segment.steps
              /\ sg_segment = None => IsError(sg_result)
        /\ sg_train # None =>
              /\ DirectionRequests = <<>>
              /\ ~IsError(sg_result)
              /\ sg_result.mode = "train"
              /\ sg_result.cost_estimate = sg_train.cost_estimate
              /\ \E k \in 1..Len(sg_rail.tickets.list) :
                    sg_result.cost_estimate = FirstPrice(sg_rail.tickets.list[k].prices)

\* The stations are resolved, the ticket query fails, and the transit route
\* of 8 km becomes the train segment.
C15_Witness ==
    /\ sg_pc = "done"
    /\ sg_mode = "train"
    /\ sg_rail.available
    /\ Len(TicketRequests) = 1
    /\ sg_rail.tickets.status = "error"
    /\ sg_train = None
    /\ sg_segment # None
    /\ sg_segment.steps # <<>>
    /\ sg_result.mode = "train"
    /\ sg_result.distance_km = 8000
    /\ sg_result.cost_estimate = 4

\* The lookup yields a train: price 25, no directions request.
C15_WitnessTrain ==
    /\ sg_pc = "done"
    /\ sg_train # None
    /\ sg_result.cost_estimate = 25
    /\ DirectionRequests = <<>>

\* C16: the date sent to the ticket provider is the calendar day after the
\* current calendar day at the origin, whose zone is that of every station
\* of the rail network, UTC+8: never the current day and never the day
\* after the next, also in the minutes around local midnight.
C16_TicketDateIsLocalTomorrow ==
    \A k \in 1..Len(TicketRequests) :
        LET local == sg_now + 480
            today == local \div 1440
        IN  /\ TicketRequests[k].date = DateString(CivilFromDays(today + 1))
            /\ TicketRequests[k].date # DateString(CivilFromDays(today))
            /\ TicketRequests[k].date # DateString(CivilFromDays(today + 2))

\* 2024-02-29T15:59Z is 23:59 of the leap day in UTC+8 and the date sent is
\* the first of March; a minute later it is the second.
C16_Witness ==
    /\ Len(TicketRequests) = 1
    /\ \/ sg_now = 1440 * 19782 + 959 /\ TicketRequests[1].date = "2024-03-01"
       \/ sg_now = 1440 * 19782 + 960 /\ TicketRequests[1].date = "2024-03-02"

\* The directions endpoint of a named mode.
OwnEndpoint(mode) == IF mode = "cycling" THEN "bicycling" ELSE mode

NamedModes == {"driving", "walking", "cycling", "transit"}

\* C17: the request for a leg of mode driving, walking, cycling or transit
\* goes to the directions endpoint of that mode, when the mode is the
\* strategy of optimize_route and when it is the mode of calculate_segment.
C17_ModeServedByOwnEndpoint ==
    /\ (pc \in {"routing", "done"} /\ i >= 1 /\ strategy \in NamedModes) =>
          \A k \in 1..Len(leg_requests) :
              leg_requests[k].endpoint = OwnEndpoint(strategy)
    /\ (sg_pc = "done" /\ sg_mode \in NamedModes) =>
          \A k \in 1..Len(DirectionRequests) :
              DirectionRequests[k].endpoint = OwnEndpoint(sg_mode)

\* --- station resolution and train selection (specification SpecSegment) ----
\* The rail lookup of a train call has been made with both endpoints resolved
\* and the rail provider registered.
RailQueried ==
    /\ sg_mode = "train"
    /\ sg_pc \in {"route", "done"}
    /\ sg_origin # None /\ sg_dest # None
    /\ sg_rail.available

\* The ranks of the candidate names of a place the station lookup has a
\* station code for.
KnownCandidates(loc) ==
    {k \in 1..Len(StationCandidates(loc.name, loc.city)) :
        /\ sg_rail.by_names.status = "ok"
        /\ StationCandidates(loc.name, loc.city)[k] \in sg_rail.by_names.known}

\* The ranks of the stations of the place's city whose name contains, or is
\* contained in, the name of the place.
CityMatches(loc) ==
    IF loc.city = "" \/ sg_rail.in_city.status # "ok" THEN {}
    ELSE {j \in 1..Len(sg_rail.in_city.stations) :
            \/ Contains(loc.name, sg_rail.in_city.stations[j].station_name)
            \/ Contains(sg_rail.in_city.stations[j].station_name, loc.name)}

Least(S) == CHOOSE k \in S : \A j \in S : k <= j

\* The name of the station the claim gives a place, "" when it has none.
ExpectedStation(loc) ==
    IF KnownCandidates(loc) # {}
    THEN StationCandidates(loc.name, loc.city)[Least(KnownCandidates(loc))]
    ELSE IF CityMatches(loc) # {}
    THEN sg_rail.in_city.stations[Least(CityMatches(loc))].station_name
    ELSE ""

\* The requests for the list of a city's stations.
CityListRequests ==
    SelectSeq(sg_requests,
              LAMBDA r : r.endpoint = RailEndpoint /\ r.tool = "get-stations-code-in-city")

\* C21: per endpoint the station is that of the first candidate name, in
\* generation order, the lookup has a code for; the list of the city's
\* stations is requested only for an endpoint none of whose candidates
\* resolved, and then the first listed station whose name contains or is
\* contained in the place name is taken; with an endpoint unresolved no ticket
\* query is made and there is no train.
C21_StationIsFirstResolvingCandidate ==
    RailQueried =>
        /\ Len(CityListRequests) =
              (IF KnownCandidates(sg_origin) = {} /\ sg_origin.city # "" THEN 1 ELSE 0)
              + (IF KnownCandidates(sg_dest) = {} /\ sg_dest.city # "" THEN 1 ELSE 0)
        /\ IF ExpectedStation(sg_origin) = "" \/ ExpectedStation(sg_dest) = ""
           THEN TicketRequests = <<>> /\ sg_train = None
           ELSE /\ Len(TicketRequests) = 1
                /\ TicketRequests[1].fromStation =
                       Station(ExpectedStation(sg_origin)).station_code
                /\ TicketRequests[1].toStation =
                       Station(ExpectedStation(sg_dest)).station_code
                /\ sg_train # None =>
                       /\ sg_train.from_station = ExpectedStation(sg_origin)
                       /\ sg_train.to_station = ExpectedStation(sg_dest)

\* C21 witness: "S Station" is unknown to the lookup and its second candidate
\* "S" is known, so the ticket query leaves from S without a city list.
C21_Witness ==
    /\ RailQueried
    /\ sg_origin.name = "S Station" /\ sg_dest.name = "A"
    /\ KnownCandidates(sg_origin) = {2}
    /\ CityListRequests = <<>>
    /\ Len(TicketRequests) = 1
    /\ TicketRequests[1].fromStation = "code:S"

\* C21 witness of the city list: no candidate of "S Station" resolves, the
\* list is B, S Station, S and the second listed station is taken; A resolved
\* by name.
C21_WitnessCityList ==
    /\ RailQueried
    /\ sg_origin.name = "A" /\ sg_dest.name = "S Station"
    /\ KnownCandidates(sg_origin) = {1} /\ KnownCandidates(sg_dest) = {}
    /\ CityMatches(sg_dest) = {2, 3}
    /\ Len(CityListRequests) = 1
    /\ sg_train # None /\ sg_train.to_station = "S Station"

\* C21 witness of an unresolved endpoint: the trip falls through to routing.
C21_WitnessUnresolved ==
    /\ RailQueried
    /\ ExpectedStation(sg_origin) # "" /\ ExpectedStation(sg_dest) = ""
    /\ Len(CityListRequests) = 1
    /\ sg_pc = "done"

\* The durations, in minutes, of the options of the ticket answer.
OptionDurations ==
    {DurationMin(sg_rail.tickets.list[k].lishi) : k \in 1..Len(sg_rail.tickets.list)}

\* C22: the train selected among the returned options has the least duration
\* of all options, durations compared as hours * 60 + minutes, and the
\* duration_minutes reported is that least duration.
C22_SelectsShortestTrain ==
    sg_train # None =>
        /\ sg_train.duration_minutes \in OptionDurations
        /\ \A m \in OptionDurations : sg_train.duration_minutes <= m
        /\ \E k \in 1..Len(sg_rail.tickets.list) :
              /\ sg_rail.tickets.list[k].start_train_code = sg_train.train_no
              /\ DurationMin(sg_rail.tickets.list[k].lishi) = sg_train.duration_minutes

\* --- the order of the steps of calculate_segment ---------------------------
\* The positions in the log of the requests to an endpoint ("sleep": the
\* pause).
PositionsOf(endpoint) ==
    {k \in 1..Len(sg_requests) : sg_requests[k].endpoint = endpoint}

\* The requests of the resolution of a place: its search and the geocoding.
IsResolveRequest(r) == r.endpoint \in {"text_search", "geocode"}

\* C23: the two resolutions are serial and paced.  Nothing is requested before
\* the origin's resolution starts; while the pause is pending the only
\* requests made are the origin's, its result is in hand and nothing was
\* requested for the destination; the destination's search comes after the
\* pause, which comes after every request of the origin's resolution.
C23_ResolutionsSerialAndPaced ==
    /\ sg_pc = "origin" => sg_requests = <<>>
    /\ sg_pc = "sleep" =>
          /\ Cardinality(PositionsOf("text_search")) = 1
          /\ PositionsOf("sleep") = {}
          /\ \A k \in 1..Len(sg_requests) : IsResolveRequest(sg_requests[k])
          /\ sg_requests[1].keywords = sg_origin_name
    /\ Cardinality(PositionsOf("text_search")) <= 2
    /\ Cardinality(PositionsOf("sleep")) <= 1
    /\ \A p, q \in PositionsOf("text_search") :
          p < q =>
             /\ sg_requests[p].keywords = sg_origin_name
             /\ sg_requests[q].keywords = sg_dest_name
             /\ \E s \in PositionsOf("sleep") :
                   /\ p < s /\ s < q
                   /\ \A k \in 1..(s - 1) : IsResolveRequest(sg_requests[k])
                   /\ \A k \in 1..(s - 1) :
                         sg_requests[k].endpoint = "text_search" => k = p
    /\ sg_pc \in {"rail", "stations", "tickets", "route", "done"} =>
          Cardinality(PositionsOf("text_search")) = 2

\* C23 witness: a returned call for two different places whose log is the
\* origin's search, the pause, the destination's search and the route request.
C23_Witness ==
    /\ sg_pc = "done"
    /\ sg_origin_name = "A" /\ sg_dest_name = "S"
    /\ Len(sg_requests) = 4
    /\ sg_requests[1].endpoint = "text_search" /\ sg_requests[1].keywords = "A"
    /\ sg_requests[2].endpoint = "sleep"
    /\ sg_requests[3].endpoint = "text_search" /\ sg_requests[3].keywords = "S"
    /\ sg_requests[4].endpoint = "driving"

\* --- the plausibility check and the failures of calculate_segment ----------
\* Both endpoints are resolved and the checks after the resolutions are done.
BothResolved ==
    /\ sg_pc \in {"rail", "stations", "tickets", "route", "done"}
    /\ sg_origin # None /\ sg_dest # None

StraightLine == HaversineKm(sg_origin.lat, sg_origin.lng, sg_dest.lat, sg_dest.lng)

\* The requests to the rail-schedule provider.
RailLookups == SelectSeq(sg_requests, LAMBDA r : r.endpoint = RailEndpoint)

\* C27: the plausibility check of mode and distance never fires: no result of
\* calculate_segment is the mode_not_suitable error, and with both endpoints
\* resolved, at any straight-line distance, the call goes on to the rail
\* lookup (train) or the route lookup and returns what that lookup gives.
C27_ModeDistanceCheckIsNoOp ==
    /\ sg_result # None => "error_type" \notin DOMAIN sg_result
    /\ (sg_pc = "done" /\ IsError(sg_result)) =>
          sg_result.error \in {"Could not resolve locations", "Could not calculate route"}
    /\ sg_pc \in {"rail", "stations", "tickets", "route"} => BothResolved
    /\ (sg_pc = "done" /\ BothResolved) =>
          \/ sg_mode = "train" /\ sg_train # None /\ TicketRequests # <<>>
          \/ Len(DirectionRequests) = 1

\* C27 witness: a flight from a place to itself (distance 0) is routed.
C27_Witness ==
    /\ sg_pc = "done"
    /\ BothResolved
    /\ sg_mode = "flight"
    /\ StraightLine = 0
    /\ ~IsError(sg_result)
    /\ Len(DirectionRequests) = 1

\* C27 witness of a train over distance 0 that reaches the rail lookup.
C27_WitnessTrain ==
    /\ sg_pc = "done"
    /\ BothResolved
    /\ sg_mode = "train"
    /\ StraightLine = 0
    /\ RailLookups # <<>>

\* The requests to the providers (everything in the log but the pause).
ProviderRequests == SelectSeq(sg_requests, LAMBDA r : r.endpoint # "sleep")

\* C28: the first failed step ends the call: once the origin's resolution has
\* failed no further provider request is issued (no search for the
\* destination, no rail query, no routing) and the result is an error.
C28_NoRequestAfterFailedOrigin ==
    (sg_pc # "origin" /\ sg_origin = None) =>
        /\ \A k \in 1..Len(ProviderRequests) :
              /\ IsResolveRequest(ProviderRequests[k])
              /\ ProviderRequests[k].endpoint = "text_search" => k = 1
        /\ sg_pc = "done" => IsError(sg_result)

\* --- the endpoints (specifications Spec and SpecSegment) --------------------
\* C29: when the service returns an error result, /travel/optimize and
\* /travel/calculate-segment answer with status 400 and the error text as
\* detail; a result without error is answered as it is; status 500 is left
\* to a service call that raises, which no returned result is.  The requests
\* to /travel/optimize are those the handler receives, with two names or
\* more.
C29_ErrorResultAnswers400 ==
    /\ (pc = "done" /\ Len(locations) >= 2) =>
          IF IsError(result)
          THEN response.status_code = 400 /\ response.detail = result.error
          ELSE response = Ok(result)
    /\ sg_pc = "done" =>
          IF IsError(sg_result)
          THEN sg_response.status_code = 400 /\ sg_response.detail = sg_result.error
          ELSE sg_response = Ok(sg_result)

\* --- the plan store (specification SpecStore) ------------------------------
\* What get_plan gives for an id when the file holds `content` and is read.
Stored(content, id) == get_plan(content, id, TRUE)

\* An operation left every entry but that of its id as it was.
OthersKept ==
    \A k \in PlanIds \ {st_last.id} : Stored(st_file, k) = Stored(st_last.before, k)

\* C30: every operation changes only the entry of the id it was given, also
\* when the file could not be read at its start.  After a save_plan(p) that
\* returned, get_plan(p.id) gives p and every other plan is stored as before;
\* delete_plan(id) returns true exactly when id was stored, then removes that
\* entry only, and leaves the store as it was when it returns false.
C30_OperationsTouchOnlyTheirEntry ==
    st_last # None =>
        /\ (st_last.op = "save_plan" /\ st_last.returned # SerializationError) =>
              /\ Stored(st_file, st_last.id) = st_last.plan
              /\ OthersKept
        /\ st_last.op = "delete_plan" =>
              /\ st_last.returned <=> Stored(st_last.before, st_last.id) # None
              /\ OthersKept
              /\ IF st_last.returned THEN Stored(st_file, st_last.id) = None
                 ELSE st_file = st_last.before

\* --- optimize_route task by task (specification SpecTasks) -----------------
\* What the resolution of a name gives: the provider's answers to one name
\* all lead to the same result.
Resolution(name) ==
    LET data == CHOOSE d \in TextSearch(name) : TRUE
    IN  get_location_details(name, "", data, Geocode(TopAddress(data)))

\* C24: the resolutions of all names are started together and the ordering
\* begins only when every one has ended; a resolution that fails, whenever
\* it does, cancels no sibling and changes no sibling's outcome, so what the
\* gather returns, and the tour's points, are the same whatever the order in
\* which the tasks end.
C24_ResolutionsIndependentOfInterleaving ==
    /\ ta_pc # "idle" => Len(ta_tasks) = Len(ta_locations)
    /\ \A k \in 1..Len(ta_tasks) :
          /\ ta_tasks[k].state \in {"running", "done"}
          /\ ta_tasks[k].state = "done" =>
                ta_tasks[k].result = Resolution(ta_locations[k])
    /\ ta_pc = "gather" => ta_results = None /\ ta_path = <<>>
    /\ ta_pc \in {"leg", "lookups", "done"} =>
          /\ RunningAt(ta_tasks) = {}
          /\ Len(ta_order) = Len(ta_locations)
          /\ \A k \in 1..Len(ta_locations) : \E j \in 1..Len(ta_order) : ta_order[j] = k
          /\ ta_results = [k \in 1..Len(ta_locations) |-> Resolution(ta_locations[k])]
          /\ IF ResolvedLocations(ta_results) = <<>>
             THEN ta_path = <<>> /\ ta_result = NoLocations
             ELSE ta_path = GreedyPath(ResolvedLocations(ta_results))

\* C24 witness: of three resolutions the failing one ends first, the first
\* name's last, and the two others are the tour.
C24_Witness ==
    /\ ta_pc \in {"leg", "lookups", "done"}
    /\ ta_locations = <<"B", "X", "A">>
    /\ ta_order = <<2, 3, 1>>
    /\ ta_results[2] = None
    /\ Len(ta_path) = 2
    /\ ta_path[1].name = "B"

\* C24 witness of the same call with the failing resolution ending last.
C24_WitnessFailureLast ==
    /\ ta_pc \in {"leg", "lookups", "done"}
    /\ ta_locations = <<"B", "X", "A">>
    /\ ta_order = <<1, 3, 2>>
    /\ Len(ta_path) = 2
    /\ ta_path[1].name = "B"

\* The positions of the events of a kind and mode in the log of the leg.
EventsAt(kind, mode) ==
    {p \in 1..Len(ta_events) : ta_events[p].kind = kind /\ ta_events[p].mode = mode}

\* The entry of the leg the log is about has been recorded.
LegRecorded == ta_events # <<>> /\ ta_events[Len(ta_events)].kind = "record"

\* C25: the lookups of a leg are issued only when the entries of all earlier
\* legs are recorded; the two lookups of a smart leg are both issued before
\* either ends; the entry is recorded after every lookup of the leg has
\* ended, and the segment chosen is the choice between the two results,
\* whichever lookup ended first.
C25_LegLookupsOrdered ==
    /\ Len(ta_segments) = ta_leg /\ Len(ta_chosen) = ta_leg
    /\ \A p \in 1..Len(ta_events) :
          ta_events[p].leg = IF LegRecorded THEN ta_leg ELSE ta_leg + 1
    /\ ta_pc = "lookups" => ~LegRecorded /\ ta_events # <<>>
    /\ ta_events # <<>> =>
          LET modes == LegModes(ta_strategy)
          IN  /\ \A j \in 1..Len(modes) : ta_events[j] = Event("issue", ta_events[1].leg, modes[j])
              /\ \A p \in 1..Len(ta_events) :
                    ta_events[p].kind = "finish" => p > Len(modes)
              /\ \A p \in 1..Len(ta_events) :
                    ta_events[p].kind = "record" =>
                       /\ p = Len(ta_events)
                       /\ \A j \in 1..Len(modes) :
                             \E f \in EventsAt("finish", modes[j]) : f < p
              /\ LegRecorded =>
                    ta_chosen[ta_leg] =
                       IF ta_strategy \in SmartStrategies
                       THEN SmartChoice(ta_preference, ta_lookups[1].result,
                                        ta_lookups[2].result)
                       ELSE ta_lookups[1].result

\* C25 witness: the second leg of a smart tour whose transit lookup ended
\* first and whose faster driving segment is chosen.
C25_Witness ==
    /\ ta_strategy = "smart" /\ ta_preference = "time"
    /\ ta_leg = 2
    /\ LegRecorded
    /\ ta_events = <<Event("issue", 2, "driving"), Event("issue", 2, "transit"),
                     Event("finish", 2, "transit"), Event("finish", 2, "driving"),
                     Event("record", 2, "")>>
    /\ ta_lookups[1].result # None /\ ta_lookups[2].result # None
    /\ ta_chosen[2] = ta_lookups[1].result

\* C25 witness of the other order: driving ended first and transit is chosen
\* by preference.
C25_WitnessDrivingFirst ==
    /\ ta_strategy = "smart" /\ ta_preference = "transit_first"
    /\ LegRecorded
    /\ FirstFinished(ta_events) = "driving"
    /\ ta_lookups[1].result # None /\ ta_lookups[2].result # None
    /\ ta_chosen[ta_leg] = ta_lookups[2].result

\* --- termination (specification SpecCalls) ---------------------------------
\* The call has returned a result value: a tour or an error result, a segment
\* or an error result.
Returned ==
    \/ /\ ta_pc = "done"
       /\ IsSuccess(ta_result) \/ (IsError(ta_result) /\ ta_result = NoLocations)
    \/ /\ sg_pc = "done"
       /\ sg_result # None
       /\ IsError(sg_result) \/ "cost_estimate" \in DOMAIN sg_result

\* C26: when every provider call ends, with an answer or a failure, every
\* optimize_route call and every calculate_segment call returns a result
\* value; a provider failure ends as a dropped name, an error entry or an
\* error result, not as an exception.
C26_CallsReturn == <>Returned

\* C26 witness: a returned smart tour whose two lookups both failed and whose
\* leg is an error entry.
C26_Witness ==
    /\ ta_pc = "done"
    /\ ta_strategy = "smart"
    /\ IsSuccess(ta_result)
    /\ Len(ta_result.segments) = 1
    /\ ta_lookups[1].result = None /\ ta_lookups[2].result = None
    /\ IsErrorEntry(ta_result.segments[1])

\* C26 witness of a dropped name: the provider fails on X and the tour is the
\* other name alone.
C26_WitnessDropped ==
    /\ ta_pc = "done"
    /\ ta_locations = <<"X", "A">>
    /\ IsSuccess(ta_result)
    /\ ta_result.optimized_order = <<"A">>

\* C26 witness of calculate_segment: the directions provider failed and the
\* call returned the error result.
C26_WitnessSegment ==
    /\ sg_pc = "done"
    /\ sg_origin # None /\ sg_dest # None
    /\ sg_segment = None
    /\ sg_result = [error |-> "Could not calculate route"]

====
